---- MODULE Spec2Model ----
(***************************************************************************)
(* Model of vocode/streaming/utils/worker.py: the asyncio pipeline workers *)
(* AsyncQueueWorker and InterruptibleWorker, and InterruptibleEvent.       *)
(*                                                                         *)
(* One step of the model is one uninterrupted run of a coroutine between   *)
(* two suspension points of the asyncio event loop, or one synchronous     *)
(* call made by the owner of the worker (start, send_nonblocking,          *)
(* terminate, cancel_current_task, interrupt).                             *)
(***************************************************************************)
EXTENDS Integers, Sequences, FiniteSets

\* Number of items the producer sends.
MaxItems == 3
\* Number of start() calls the owner makes on the instance.
MaxStarts == 2
MaxEvents == 3
MaxFrames == 4
MaxBytes == 6
MaxChunkSize == 4

Items == 1..MaxItems
Loops == 1..MaxStarts

\* The default of InterruptibleWorker's max_concurrency argument.
DefaultMaxConcurrency == 2

AQW == "AsyncQueueWorker"
IW == "InterruptibleWorker"
TAW == "ThreadAsyncWorker"

\* The two relay loops of a ThreadAsyncWorker.
ToThread == "_forward_to_thread"
FromThread == "_forward_from_thead"
Relays == {ToThread, FromThread}

VARIABLES
    kind,                \* the class of the worker instance
    max_concurrency,     \* InterruptibleWorker.max_concurrency
    worker_task,         \* AsyncWorker.worker_task: 0 is None, else a loop task
    nStarts,             \* number of start() calls so far
    loopPc,              \* loop task -> where its coroutine is suspended
    loopCancel,          \* loop task -> a CancelledError is due at its next step
    loopItem,            \* loop task -> the item it is processing / awaiting
    input_queue,         \* AsyncWorker.input_queue
    nSent,               \* number of send_nonblocking() calls so far
    proc,                \* item -> state of process(item)
    taskCancel,          \* item -> a CancelledError is due in its process() task
    is_interruptible,    \* InterruptibleEvent.is_interruptible
    sigOf,               \* event -> the threading.Event it holds
    signal,              \* threading.Event -> is_set()
    interruptible_event, \* InterruptibleWorker.interruptible_event (0: unset)
    current_task,        \* InterruptibleWorker.current_task (0: None)
    started,             \* history: items in the order process() was started
    terminated,          \* history: terminate() was called on a started worker
    effective,           \* history: terminate() has taken effect (see History)
    lastCall             \* the call made in the last step and what it returned

VARIABLES
    input_janus_queue,   \* ThreadAsyncWorker.input_janus_queue
    output_janus_queue,  \* ThreadAsyncWorker.output_janus_queue
    output_queue,        \* AsyncWorker.output_queue
    toThread,            \* history: the items put on input_janus_queue, in order
    fwdPc,               \* where the run_thread_forwarding task is
    fwdCancel,           \* a CancelledError is due at its next step
    relayPc,             \* relay loop -> where its task is
    relayCancel          \* relay loop -> a CancelledError is due at its next step

threadVars == <<input_janus_queue, output_janus_queue, output_queue, toThread,
                fwdPc, fwdCancel, relayPc, relayCancel>>

VARIABLES
    subscriptions,       \* EventsManager.subscriptions
    queue,               \* EventsManager.queue
    active,              \* EventsManager.active
    startPc,             \* where the task running EventsManager.start() is
    published,           \* history: every event given to publish_event, in order
    handled,             \* history: every event given to handle_event, in order
    ended,               \* history: end() has been called
    late                 \* history: the events published after end() was called

eventVars == <<subscriptions, queue, active, startPc, published, handled,
               ended, late>>

VARIABLES
    provider,                \* "twilio" (TwilioCall) or "vonage" (VonageCall)
    callPc,                  \* where attach_ws_and_start is
    conversation_active,     \* StreamingConversation.active
    latest_media_timestamp,  \* TwilioCall.latest_media_timestamp
    stream_sid,              \* TwilioOutputDevice.stream_sid
    nFrames,                 \* history: how many times the websocket was read
    audio,                   \* history: what receive_audio was given, in order
    stamps,                  \* history: the timestamps of the media frames handled
    connected,               \* history: the read that started the conversation
    lifecycle,               \* history: the lifecycle events published
    config_deleted,          \* history: the call has called delete_config
    received,                \* history: what the last read of the websocket gave
    config_manager,          \* the class of the call's config manager
    configs                  \* InMemoryConfigManager.configs

callVars == <<provider, callPc, conversation_active, latest_media_timestamp,
              stream_sid, nFrames, audio, stamps, connected, lifecycle,
              config_deleted, received, config_manager, configs>>

VARIABLES
    output_bytes,            \* the audio buffer that is cut into chunks
    chunk_size,              \* chunk_size
    should_encode_as_wav,    \* SynthesizerConfig.should_encode_as_wav
    producer,                \* the function that made the chunk generator
    genPos,                  \* the loop variable i of chunk_generator
    chunks,                  \* history: the ChunkResults yielded, in order
    exhausted                \* chunk_generator has raised StopAsyncIteration

chunkVars == <<output_bytes, chunk_size, should_encode_as_wav, producer,
               genPos, chunks, exhausted>>

VARIABLES
    text,                    \* message.text
    seconds,                 \* seconds, in quarters of a second
    size_of_output,          \* size_of_output
    sampling_rate,           \* SynthesizerConfig.sampling_rate
    words_per_minute,        \* words_per_minute
    get_message_up_to,       \* SynthesisResult.get_message_up_to
    cutoff                   \* the function applied and what it returned

cutoffVars == <<text, seconds, size_of_output, sampling_rate,
                words_per_minute, get_message_up_to, cutoff>>

synthVars == <<chunkVars, cutoffVars>>

VARIABLES
    _ended,                  \* GoogleTranscriber._ended
    streamPc,                \* where generator() is
    data,                    \* generator(): the chunks of the batch being read
    taken,                   \* history: what generator() took from sync_q
    yielded,                 \* history: the byte strings generator() yielded
    respPc,                  \* where process_responses_loop is
    responses                \* history: the responses handled

googleVars == <<_ended, streamPc, data, taken, yielded, respPc, responses>>

VARIABLES
    workers,                 \* the workers constructed: class and output_queue
    queues,                  \* the asyncio.Queue objects, by identity
    observed                 \* history: what was read through which worker

queueVars == <<workers, queues, observed>>

VARIABLES
    device_active,           \* WebsocketOutputDevice.active
    device_queue,            \* WebsocketOutputDevice.queue
    process_task,            \* where the task of process() is
    ws,                      \* history: the messages given to ws.send_text
    submitted,               \* history: the calls of send_nonblocking
    sent_at_close            \* history: Len(ws) at the first mark_closed()

websocketVars == <<device_active, device_queue, process_task, ws, submitted,
                   sent_at_close>>

deviceVars == <<queueVars, websocketVars>>

\* The variables of the stages at the edge of the pipeline.
ioVars == <<googleVars, deviceVars>>

\* The variables no ThreadAsyncWorker step touches.
nonThreadVars == <<eventVars, callVars, synthVars, ioVars>>

\* The fields of a worker, without the record of the owner's last call.
workerFields == <<kind, max_concurrency, worker_task, nStarts, loopPc,
                  loopCancel, loopItem, input_queue, nSent, proc, taskCancel,
                  is_interruptible, sigOf, signal, interruptible_event,
                  current_task, started, terminated, effective>>

workerVars == <<kind, max_concurrency, worker_task, nStarts, loopPc,
                loopCancel, loopItem, input_queue, nSent, proc, taskCancel,
                is_interruptible, sigOf, signal, interruptible_event,
                current_task, started, terminated, effective, lastCall>>

\* The variables of the other components, which no worker step touches.
restVars == <<threadVars, eventVars, callVars, synthVars, ioVars>>

vars == <<workerVars, restVars>>

\* The other components as constructed.
InitThreadRest ==
    /\ input_janus_queue = <<>>
    /\ output_janus_queue = <<>>
    /\ output_queue = <<>>
    /\ toThread = <<>>
    /\ fwdPc = "none"
    /\ fwdCancel = FALSE
    /\ relayPc = [r \in Relays |-> "none"]
    /\ relayCancel = [r \in Relays |-> FALSE]

\* EventsManager.__init__, but for the subscriptions it is given.
EventsConstructed ==
    /\ queue = <<>>
    /\ active = FALSE
    /\ startPc = "none"
    /\ published = <<>>
    /\ handled = <<>>
    /\ ended = FALSE
    /\ late = {}

InitEventsRest ==
    /\ subscriptions = {}
    /\ EventsConstructed

\* A call as constructed, but for its provider.
CallConstructed ==
    /\ callPc = "init"
    /\ conversation_active = FALSE
    /\ latest_media_timestamp = 0
    /\ stream_sid = "none"
    /\ nFrames = 0
    /\ audio = <<>>
    /\ stamps = <<>>
    /\ connected = [at |-> 0, event |-> "none"]
    /\ lifecycle = <<>>
    /\ config_deleted = FALSE
    /\ received = [event |-> "none", ts |-> 0]
    /\ configs = [id \in {} |-> "none"]

InitCallRest ==
    /\ provider = "none"
    /\ config_manager = "InMemoryConfigManager"
    /\ CallConstructed

\* No chunk generator has been made.
InitChunksRest ==
    /\ output_bytes = <<>>
    /\ chunk_size = 1
    /\ should_encode_as_wav = FALSE
    /\ producer = "none"
    /\ genPos = 0
    /\ chunks = <<>>
    /\ exhausted = FALSE

\* No cutoff function has been applied.
NoCutoff == [of |-> "none", error |-> "none", value |-> <<>>]

InitCutoffRest ==
    /\ text = <<>>
    /\ seconds = 0
    /\ size_of_output = 0
    /\ sampling_rate = 1
    /\ words_per_minute = 0
    /\ get_message_up_to = "none"
    /\ cutoff = NoCutoff

InitSynthRest == InitChunksRest /\ InitCutoffRest

\* GoogleTranscriber.__init__; the thread has not called generator() yet.
InitGoogleRest ==
    /\ _ended = FALSE
    /\ streamPc = "none"
    /\ data = <<>>
    /\ taken = <<>>
    /\ yielded = <<>>
    /\ respPc = "none"
    /\ responses = <<>>

\* The queues made when worker.py is imported: the default value of the
\* output_queue parameter of each __init__ is evaluated once, at the def.
Classes == {"AsyncWorker", "ThreadAsyncWorker", "InterruptibleWorker"}

DefaultQueue ==
    [cls \in Classes |-> CASE cls = "AsyncWorker" -> 1
                           [] cls = "ThreadAsyncWorker" -> 2
                           [] cls = "InterruptibleWorker" -> 3]

MaxWorkers == 2
MaxPuts == 2

QueueIds == 1..(Cardinality(Classes) + MaxWorkers)

InitQueuesRest ==
    /\ workers = <<>>
    /\ queues = [q \in QueueIds |-> <<>>]
    /\ observed = <<>>

\* WebsocketOutputDevice.__init__: the task of process() is created and has
\* not run yet.
InitWebsocketRest ==
    /\ device_active = TRUE
    /\ device_queue = <<>>
    /\ process_task = "created"
    /\ ws = <<>>
    /\ submitted = <<>>
    /\ sent_at_close = 0

InitDeviceRest == InitQueuesRest /\ InitWebsocketRest

InitIoRest == InitGoogleRest /\ InitDeviceRest

InitRest ==
    /\ InitThreadRest
    /\ InitEventsRest
    /\ InitCallRest
    /\ InitSynthRest
    /\ InitIoRest

NoCall == [op |-> "none", arg |-> 0, val |-> FALSE]

\* A task or coroutine that is over: asyncio.Task.done().
DoneStates == {"finished", "failed", "cancelled"}

TaskDone(e) == proc[e] \in DoneStates

\* Faulty variant of AwaitReady: the loop does not wait for the task.
AwaitNoWait(e) == TRUE
\* `await self.current_task` resumes only when the awaited task is done.
AwaitReady(e) == TaskDone(e)

\* The loop task is over (returned or cancelled).
LoopOver(i) == loopPc[i] = "done"
\* A consumption loop that is running: it waits on the input queue or is
\* processing an item it took from it.
LoopActive(i) == loopPc[i] \in {"get", "process", "await"}

\* terminate() has been called and every loop task started so far is over.
TerminationEffective ==
    /\ terminated
    /\ nStarts >= 1
    /\ \A i \in 1..nStarts : LoopOver(i)

\* The history variable `effective` holds from the first moment
\* TerminationEffective holds.
History == effective' = (effective \/ TerminationEffective')

\* The fields every worker has after construction.
WorkerConstructed ==
    /\ worker_task = 0
    /\ nStarts = 0
    /\ loopPc = [i \in Loops |-> "none"]
    /\ loopCancel = [i \in Loops |-> FALSE]
    /\ loopItem = [i \in Loops |-> 0]
    /\ input_queue = <<>>
    /\ nSent = 0
    /\ proc = [e \in Items |-> "none"]
    /\ taskCancel = [e \in Items |-> FALSE]
    /\ is_interruptible = [e \in Items |-> FALSE]
    /\ sigOf = [e \in Items |-> e]
    /\ signal = [s \in Items |-> FALSE]
    /\ interruptible_event = 0
    /\ current_task = 0
    /\ started = <<>>
    /\ terminated = FALSE
    /\ effective = FALSE
    /\ lastCall = NoCall

InitWorker ==
    /\ kind \in {AQW, IW}
    /\ max_concurrency \in (IF kind = IW THEN {1, DefaultMaxConcurrency} ELSE {0})
    /\ WorkerConstructed

----------------------------------------------------------------------------
\* InterruptibleEvent

\* Faulty variant of IsInterrupted: the flag is not looked at.
IsInterruptedAnyFlag(flags, e) == signal[sigOf[e]]
\* InterruptibleEvent.is_interrupted, with the flags as they are at the call.
IsInterrupted(flags, e) == flags[e] /\ signal[sigOf[e]]

\* Faulty variant of Interrupt: the flag is not looked at.
InterruptAlways(e) ==
    /\ kind = IW
    /\ e \in 1..nSent
    /\ signal' = [signal EXCEPT ![sigOf[e]] = TRUE]
    /\ lastCall' = [op |-> "interrupt", arg |-> e, val |-> TRUE]
    /\ UNCHANGED <<kind, max_concurrency, worker_task, nStarts, loopPc,
                   loopCancel, loopItem, input_queue, nSent, proc, taskCancel,
                   is_interruptible, sigOf, interruptible_event, current_task,
                   started, terminated>>
    /\ History
    /\ UNCHANGED restVars
\* InterruptibleEvent.interrupt
Interrupt(e) ==
    /\ kind = IW
    /\ e \in 1..nSent
    /\ IF ~is_interruptible[e]
       THEN /\ lastCall' = [op |-> "interrupt", arg |-> e, val |-> FALSE]
            /\ UNCHANGED signal
       ELSE /\ signal' = [signal EXCEPT ![sigOf[e]] = TRUE]
            /\ lastCall' = [op |-> "interrupt", arg |-> e, val |-> TRUE]
    /\ UNCHANGED <<kind, max_concurrency, worker_task, nStarts, loopPc,
                   loopCancel, loopItem, input_queue, nSent, proc, taskCancel,
                   is_interruptible, sigOf, interruptible_event, current_task,
                   started, terminated>>
    /\ History
    /\ UNCHANGED restVars

----------------------------------------------------------------------------
\* AsyncWorker

\* AsyncWorker.send_nonblocking: the producer builds the next item and puts it
\* on the input queue. For an InterruptibleWorker the item is an
\* InterruptibleEvent built with the flag given and either a fresh
\* threading.Event or the one of an earlier event (the constructor's
\* interruption_event argument).
SendNonblocking(flag, sig) ==
    /\ nSent < MaxItems
    /\ LET e == nSent + 1 IN
       /\ IF kind = IW
          THEN /\ sig \in {1, e}
               /\ is_interruptible' = [is_interruptible EXCEPT ![e] = flag]
               /\ sigOf' = [sigOf EXCEPT ![e] = sig]
          ELSE /\ flag = FALSE
               /\ sig = e
               /\ UNCHANGED <<is_interruptible, sigOf>>
       /\ nSent' = e
       /\ input_queue' = Append(input_queue, e)
    /\ lastCall' = [op |-> "send_nonblocking", arg |-> nSent + 1, val |-> FALSE]
    /\ UNCHANGED <<kind, max_concurrency, worker_task, nStarts, loopPc,
                   loopCancel, loopItem, proc, taskCancel, signal,
                   interruptible_event, current_task, started, terminated>>
    /\ History
    /\ UNCHANGED restVars

\* AsyncWorker.start: a new loop task is created and becomes worker_task,
\* whatever worker_task was.
StartTask ==
    /\ nStarts' = nStarts + 1
    /\ loopPc' = [loopPc EXCEPT ![nStarts + 1] = "created"]
    /\ worker_task' = nStarts + 1
    /\ lastCall' = [op |-> "start", arg |-> nStarts + 1, val |-> FALSE]
    /\ UNCHANGED <<kind, max_concurrency, loopCancel, loopItem, input_queue,
                   nSent, proc, taskCancel, is_interruptible, sigOf, signal,
                   interruptible_event, current_task, started, terminated>>
    /\ History
    /\ UNCHANGED restVars

\* start() on a constructed worker.
Start ==
    /\ nStarts = 0
    /\ StartTask

\* start() on a worker that was started before.
Restart ==
    /\ nStarts >= 1
    /\ nStarts < MaxStarts
    /\ StartTask

\* asyncio.Task.cancel() on loop task i, which is not done: the request goes
\* to the task the loop awaits if there is one that is not done, and else the
\* loop itself gets CancelledError at its next step.
CancelLoop(i) ==
    IF kind = IW /\ loopPc[i] = "await" /\ ~TaskDone(loopItem[i])
    THEN /\ taskCancel' = [taskCancel EXCEPT ![loopItem[i]] = TRUE]
         /\ UNCHANGED loopCancel
    ELSE /\ loopCancel' = [loopCancel EXCEPT ![i] = TRUE]
         /\ UNCHANGED taskCancel

\* AsyncWorker.terminate
Terminate ==
    /\ IF worker_task # 0
       THEN /\ terminated' = TRUE
            /\ IF LoopOver(worker_task)
               THEN /\ lastCall' = [op |-> "terminate", arg |-> 0, val |-> FALSE]
                    /\ UNCHANGED <<loopCancel, taskCancel>>
               ELSE /\ lastCall' = [op |-> "terminate", arg |-> 0, val |-> TRUE]
                    /\ CancelLoop(worker_task)
       ELSE /\ lastCall' = [op |-> "terminate", arg |-> 0, val |-> FALSE]
            /\ UNCHANGED <<terminated, loopCancel, taskCancel>>
    /\ UNCHANGED <<kind, max_concurrency, worker_task, nStarts, loopPc,
                   loopItem, input_queue, nSent, proc, is_interruptible, sigOf,
                   signal, interruptible_event, current_task, started>>
    /\ History
    /\ UNCHANGED restVars

----------------------------------------------------------------------------
\* The consumption loops. A loop runs from one suspension point to the next
\* in one step: `await self.input_queue.get()` does not suspend when the
\* queue holds an item.

RECURSIVE DropStale(_, _)
\* The `continue` of InterruptibleWorker._run_loop: the queue from its first
\* event that is not interrupted on.
DropStale(flags, q) ==
    IF q = <<>> THEN <<>>
    ELSE IF IsInterrupted(flags, Head(q)) THEN DropStale(flags, Tail(q))
    ELSE q

\* Faulty variant of AQIterate: the item is left on the queue.
AQIterateNoPop(i, pr) ==
    IF input_queue = <<>>
    THEN /\ loopPc' = [loopPc EXCEPT ![i] = "get"]
         /\ loopItem' = [loopItem EXCEPT ![i] = 0]
         /\ proc' = pr
         /\ UNCHANGED <<input_queue, started>>
    ELSE LET x == Head(input_queue) IN
         /\ UNCHANGED input_queue
         /\ loopPc' = [loopPc EXCEPT ![i] = "process"]
         /\ loopItem' = [loopItem EXCEPT ![i] = x]
         /\ proc' = [pr EXCEPT ![x] = "running"]
         /\ started' = Append(started, x)
\* Faulty variant of AQIterate: the newest item is taken first.
AQIterateLifo(i, pr) ==
    IF input_queue = <<>>
    THEN /\ loopPc' = [loopPc EXCEPT ![i] = "get"]
         /\ loopItem' = [loopItem EXCEPT ![i] = 0]
         /\ proc' = pr
         /\ UNCHANGED <<input_queue, started>>
    ELSE LET x == input_queue[Len(input_queue)] IN
         /\ input_queue' = SubSeq(input_queue, 1, Len(input_queue) - 1)
         /\ loopPc' = [loopPc EXCEPT ![i] = "process"]
         /\ loopItem' = [loopItem EXCEPT ![i] = x]
         /\ proc' = [pr EXCEPT ![x] = "running"]
         /\ started' = Append(started, x)
\* AsyncQueueWorker._run_loop from the top of `while True`, with pr the state
\* of the processings so far: take the next item and enter process(item), or
\* suspend on the empty queue.
AQIterate(i, pr) ==
    IF input_queue = <<>>
    THEN /\ loopPc' = [loopPc EXCEPT ![i] = "get"]
         /\ loopItem' = [loopItem EXCEPT ![i] = 0]
         /\ proc' = pr
         /\ UNCHANGED <<input_queue, started>>
    ELSE LET x == Head(input_queue) IN
         /\ input_queue' = Tail(input_queue)
         /\ loopPc' = [loopPc EXCEPT ![i] = "process"]
         /\ loopItem' = [loopItem EXCEPT ![i] = x]
         /\ proc' = [pr EXCEPT ![x] = "running"]
         /\ started' = Append(started, x)

\* InterruptibleWorker._run_loop from the top of `while True`, with the
\* flags and current_task as the end of the previous iteration left them:
\* drop the stale events, then make the next event the active one and create
\* its process() task, or suspend on the empty queue.
IWIterate(i, flags, ct) ==
    LET q == DropStale(flags, input_queue) IN
    /\ is_interruptible' = flags
    /\ IF q = <<>>
       THEN /\ input_queue' = <<>>
            /\ loopPc' = [loopPc EXCEPT ![i] = "get"]
            /\ loopItem' = [loopItem EXCEPT ![i] = 0]
            /\ current_task' = ct
            /\ UNCHANGED <<interruptible_event, proc, started>>
       ELSE LET e == Head(q) IN
            /\ input_queue' = Tail(q)
            /\ interruptible_event' = e
            /\ current_task' = e
            /\ proc' = [proc EXCEPT ![e] = "pending"]
            /\ loopPc' = [loopPc EXCEPT ![i] = "await"]
            /\ loopItem' = [loopItem EXCEPT ![i] = e]
            /\ started' = Append(started, e)

\* The loop task exits: CancelledError reached _run_loop.
LoopExit(i) ==
    /\ loopPc' = [loopPc EXCEPT ![i] = "done"]
    /\ loopCancel' = [loopCancel EXCEPT ![i] = FALSE]

\* First step of a loop task, and the step that follows a wake-up of
\* `await self.input_queue.get()`.
LoopGet(i) ==
    /\ \/ loopPc[i] = "created"
       \/ loopPc[i] = "get" /\ (input_queue # <<>> \/ loopCancel[i])
    /\ IF loopCancel[i]
       THEN /\ LoopExit(i)
            /\ UNCHANGED <<loopItem, input_queue, proc, is_interruptible,
                           interruptible_event, current_task, started>>
       ELSE /\ UNCHANGED loopCancel
            /\ IF kind = AQW
               THEN /\ AQIterate(i, proc)
                    /\ UNCHANGED <<is_interruptible, interruptible_event,
                                   current_task>>
               ELSE IWIterate(i, is_interruptible, current_task)
    /\ lastCall' = NoCall
    /\ UNCHANGED <<kind, max_concurrency, worker_task, nStarts, nSent,
                   taskCancel, sigOf, signal, terminated>>
    /\ History
    /\ UNCHANGED restVars

\* Faulty variant of ProcessEnds: an exception of process() ends the loop.
ProcessEndsFatal(i, how) ==
    /\ kind = AQW
    /\ loopPc[i] = "process"
    /\ ~loopCancel[i]
    /\ how \in {"finished", "failed"}
    /\ IF how = "failed"
       THEN /\ loopPc' = [loopPc EXCEPT ![i] = "done"]
            /\ proc' = [proc EXCEPT ![loopItem[i]] = how]
            /\ UNCHANGED <<loopItem, input_queue, started>>
       ELSE AQIterate(i, [proc EXCEPT ![loopItem[i]] = how])
    /\ lastCall' = NoCall
    /\ UNCHANGED <<kind, max_concurrency, worker_task, nStarts, loopCancel,
                   nSent, taskCancel, is_interruptible, sigOf, signal,
                   interruptible_event, current_task, terminated>>
    /\ History
    /\ UNCHANGED restVars
\* AsyncQueueWorker: `await self.process(item)` returns or raises, the loop
\* logs the exception and goes on with the next item.
ProcessEnds(i, how) ==
    /\ kind = AQW
    /\ loopPc[i] = "process"
    /\ ~loopCancel[i]
    /\ how \in {"finished", "failed"}
    /\ AQIterate(i, [proc EXCEPT ![loopItem[i]] = how])
    /\ lastCall' = NoCall
    /\ UNCHANGED <<kind, max_concurrency, worker_task, nStarts, loopCancel,
                   nSent, taskCancel, is_interruptible, sigOf, signal,
                   interruptible_event, current_task, terminated>>
    /\ History
    /\ UNCHANGED restVars

\* AsyncQueueWorker: CancelledError is thrown into process(item) at its
\* suspension point. process() lets it through and the loop returns, or
\* catches it as its docstring asks and goes on.
ProcessCancelled(i, swallow) ==
    /\ kind = AQW
    /\ loopPc[i] = "process"
    /\ loopCancel[i]
    /\ IF swallow
       THEN /\ loopCancel' = [loopCancel EXCEPT ![i] = FALSE]
            /\ UNCHANGED <<loopPc, proc>>
       ELSE /\ LoopExit(i)
            /\ proc' = [proc EXCEPT ![loopItem[i]] = "cancelled"]
    /\ lastCall' = NoCall
    /\ UNCHANGED <<kind, max_concurrency, worker_task, nStarts, loopItem,
                   input_queue, nSent, taskCancel, is_interruptible, sigOf,
                   signal, interruptible_event, current_task, started,
                   terminated>>
    /\ History
    /\ UNCHANGED restVars

\* InterruptibleWorker: the process() task of event e takes a step.
TaskStep(e, how) ==
    /\ kind = IW
    /\ \/ /\ proc[e] = "pending"
          /\ how = IF taskCancel[e] THEN "cancelled" ELSE "running"
       \/ /\ proc[e] = "running"
          /\ IF taskCancel[e]
             THEN how \in {"cancelled", "running"}
             ELSE how \in {"finished", "failed"}
    /\ proc' = [proc EXCEPT ![e] = how]
    /\ taskCancel' = [taskCancel EXCEPT ![e] = FALSE]
    /\ lastCall' = NoCall
    /\ UNCHANGED <<kind, max_concurrency, worker_task, nStarts, loopPc,
                   loopCancel, loopItem, input_queue, nSent, is_interruptible,
                   sigOf, signal, interruptible_event, current_task, started,
                   terminated>>
    /\ History
    /\ UNCHANGED restVars

\* InterruptibleWorker._run_loop resumes from `await self.current_task`.
LoopResume(i) ==
    /\ kind = IW
    /\ loopPc[i] = "await"
    /\ AwaitReady(loopItem[i])
    /\ IF loopCancel[i] \/ proc[loopItem[i]] = "cancelled"
       THEN /\ LoopExit(i)
            /\ UNCHANGED <<loopItem, input_queue, proc, is_interruptible,
                           interruptible_event, current_task, started>>
       ELSE /\ UNCHANGED loopCancel
            /\ IWIterate(i,
                  [is_interruptible EXCEPT ![interruptible_event] = FALSE], 0)
    /\ lastCall' = NoCall
    /\ UNCHANGED <<kind, max_concurrency, worker_task, nStarts, nSent,
                   taskCancel, sigOf, signal, terminated>>
    /\ History
    /\ UNCHANGED restVars

\* Faulty variant of CancelCurrentTask: the event's flag is not looked at.
CancelCurrentTaskAnyEvent ==
    /\ kind = IW
    /\ IF current_task # 0 /\ ~TaskDone(current_task)
       THEN /\ taskCancel' = [taskCancel EXCEPT ![current_task] = TRUE]
            /\ lastCall' = [op |-> "cancel_current_task", arg |-> current_task,
                            val |-> TRUE]
       ELSE /\ UNCHANGED taskCancel
            /\ lastCall' = [op |-> "cancel_current_task", arg |-> 0,
                            val |-> FALSE]
    /\ UNCHANGED <<kind, max_concurrency, worker_task, nStarts, loopPc,
                   loopCancel, loopItem, input_queue, nSent, proc,
                   is_interruptible, sigOf, signal, interruptible_event,
                   current_task, started, terminated>>
    /\ History
    /\ UNCHANGED restVars
\* InterruptibleWorker.cancel_current_task
CancelCurrentTask ==
    /\ kind = IW
    /\ IF /\ current_task # 0
          /\ ~TaskDone(current_task)
          /\ is_interruptible[interruptible_event]
       THEN /\ taskCancel' = [taskCancel EXCEPT ![current_task] = TRUE]
            /\ lastCall' = [op |-> "cancel_current_task", arg |-> current_task,
                            val |-> TRUE]
       ELSE /\ UNCHANGED taskCancel
            /\ lastCall' = [op |-> "cancel_current_task", arg |-> 0,
                            val |-> FALSE]
    /\ UNCHANGED <<kind, max_concurrency, worker_task, nStarts, loopPc,
                   loopCancel, loopItem, input_queue, nSent, proc,
                   is_interruptible, sigOf, signal, interruptible_event,
                   current_task, started, terminated>>
    /\ History
    /\ UNCHANGED restVars

Next ==
    \/ Start
    \/ \E flag \in BOOLEAN, sig \in Items : SendNonblocking(flag, sig)
    \/ Terminate
    \/ \E e \in Items : Interrupt(e)
    \/ CancelCurrentTask
    \/ \E i \in Loops : LoopGet(i)
    \/ \E i \in Loops, how \in {"finished", "failed"} : ProcessEnds(i, how)
    \/ \E i \in Loops, swallow \in BOOLEAN : ProcessCancelled(i, swallow)
    \/ \E e \in Items,
          how \in {"running", "finished", "failed", "cancelled"} :
             TaskStep(e, how)
    \/ \E i \in Loops : LoopResume(i)

\* A worker instance alone: the other components stay as constructed.
Init == InitWorker /\ InitRest

Spec == Init /\ [][Next]_vars

\* The number of items the owner sends to a worker it starts again.
MaxRestartItems == 2

\* The owner may call start() again on a started worker.
NextRestart ==
    \/ Start
    \/ Restart
    \/ /\ nSent < MaxRestartItems
       /\ \E flag \in BOOLEAN, sig \in Items : SendNonblocking(flag, sig)
    \/ Terminate
    \/ \E e \in Items : Interrupt(e)
    \/ CancelCurrentTask
    \/ \E i \in Loops : LoopGet(i)
    \/ \E i \in Loops, how \in {"finished", "failed"} : ProcessEnds(i, how)
    \/ \E i \in Loops, swallow \in BOOLEAN : ProcessCancelled(i, swallow)
    \/ \E e \in Items,
          how \in {"running", "finished", "failed", "cancelled"} :
             TaskStep(e, how)
    \/ \E i \in Loops : LoopResume(i)

SpecRestart == Init /\ [][NextRestart]_vars

\* The event loop runs every coroutine that is ready (Spec starts one loop
\* task, the first).
Scheduling ==
    /\ \A i \in {1} : WF_vars(LoopGet(i))
    /\ \A i \in {1} : WF_vars(LoopResume(i))
    /\ \A i \in {1} :
          WF_vars(\E swallow \in BOOLEAN : ProcessCancelled(i, swallow))
    /\ \A e \in Items :
          WF_vars(\E how \in {"running", "finished", "failed", "cancelled"} :
                     TaskStep(e, how))

\* Every process() call ends, however often it is cancelled meanwhile.
ProcessTerminates ==
    /\ \A i \in {1} :
          SF_vars(\E how \in {"finished", "failed"} : ProcessEnds(i, how))
    /\ \A e \in Items :
          SF_vars(\E how \in {"finished", "failed", "cancelled"} :
                     TaskStep(e, how))

Fairness == Scheduling /\ ProcessTerminates

FairSpec == Spec /\ Fairness

----------------------------------------------------------------------------
\* ThreadAsyncWorker

InitThread ==
    /\ kind = TAW
    /\ max_concurrency = 0
    /\ WorkerConstructed
    /\ InitThreadRest
    /\ InitEventsRest
    /\ InitCallRest
    /\ InitSynthRest
    /\ InitIoRest

\* ThreadAsyncWorker.start: the worker thread is started and the task of
\* run_thread_forwarding is created.
ThreadStart ==
    /\ kind = TAW
    /\ nStarts = 0
    /\ nStarts' = 1
    /\ worker_task' = 1
    /\ fwdPc' = "created"
    /\ lastCall' = [op |-> "start", arg |-> 1, val |-> FALSE]
    /\ UNCHANGED <<kind, max_concurrency, loopPc, loopCancel, loopItem,
                   input_queue, nSent, proc, taskCancel, is_interruptible,
                   sigOf, signal, interruptible_event, current_task, started,
                   terminated, effective>>
    /\ UNCHANGED <<input_janus_queue, output_janus_queue, output_queue,
                   toThread, fwdCancel, relayPc, relayCancel>>
    /\ UNCHANGED nonThreadVars

\* The body of the worker thread (_run_loop of the subclass): it takes an
\* item from input_janus_queue.sync_q and puts a result on
\* output_janus_queue.sync_q.
ThreadRun ==
    /\ kind = TAW
    /\ nStarts >= 1
    /\ input_janus_queue # <<>>
    /\ input_janus_queue' = Tail(input_janus_queue)
    /\ output_janus_queue' = Append(output_janus_queue, Head(input_janus_queue))
    /\ lastCall' = NoCall
    /\ UNCHANGED <<kind, max_concurrency, worker_task, nStarts, loopPc,
                   loopCancel, loopItem, input_queue, nSent, proc, taskCancel,
                   is_interruptible, sigOf, signal, interruptible_event,
                   current_task, started, terminated, effective>>
    /\ UNCHANGED <<output_queue, toThread, fwdPc, fwdCancel, relayPc,
                   relayCancel>>
    /\ UNCHANGED nonThreadVars

\* The relay loops that are not over.
LiveRelays == {r \in Relays : relayPc[r] \in {"created", "get"}}

\* Faulty variant of GatherCancel: only the first child is cancelled.
GatherCancelFirst == [r \in Relays |-> relayCancel[r] \/ r = ToThread]
\* Cancelling the future of asyncio.gather cancels every child that is not
\* done.
GatherCancel == [r \in Relays |-> relayCancel[r] \/ r \in LiveRelays]

\* ThreadAsyncWorker.terminate: AsyncWorker.terminate on the task of
\* run_thread_forwarding. A task that awaits hands the request to what it
\* awaits (the gather future); a task that has not run yet, or whose gather
\* future is already done, gets CancelledError at its next step.
ThreadTerminate ==
    /\ kind = TAW
    /\ IF worker_task # 0
       THEN /\ terminated' = TRUE
            /\ IF fwdPc \in {"returned", "cancelled"}
               THEN /\ lastCall' = [op |-> "terminate", arg |-> 0, val |-> FALSE]
                    /\ UNCHANGED <<fwdCancel, relayCancel>>
               ELSE /\ lastCall' = [op |-> "terminate", arg |-> 0, val |-> TRUE]
                    /\ IF fwdPc = "gather" /\ LiveRelays # {}
                       THEN /\ relayCancel' = GatherCancel
                            /\ UNCHANGED fwdCancel
                       ELSE /\ fwdCancel' = TRUE
                            /\ UNCHANGED relayCancel
       ELSE /\ lastCall' = [op |-> "terminate", arg |-> 0, val |-> FALSE]
            /\ UNCHANGED <<terminated, fwdCancel, relayCancel>>
    /\ UNCHANGED <<kind, max_concurrency, worker_task, nStarts, loopPc,
                   loopCancel, loopItem, input_queue, nSent, proc, taskCancel,
                   is_interruptible, sigOf, signal, interruptible_event,
                   current_task, started, effective>>
    /\ UNCHANGED <<input_janus_queue, output_janus_queue, output_queue,
                   toThread, fwdPc, relayPc>>
    /\ UNCHANGED nonThreadVars

\* First step of the run_thread_forwarding task: asyncio.gather wraps the two
\* relay coroutines in tasks and the task awaits them. A task cancelled
\* before its first step ends cancelled without its body having run.
FwdStart ==
    /\ kind = TAW
    /\ fwdPc = "created"
    /\ IF fwdCancel
       THEN /\ fwdPc' = "cancelled"
            /\ fwdCancel' = FALSE
            /\ UNCHANGED relayPc
       ELSE /\ fwdPc' = "gather"
            /\ relayPc' = [r \in Relays |-> "created"]
            /\ UNCHANGED fwdCancel
    /\ lastCall' = NoCall
    /\ UNCHANGED <<kind, max_concurrency, worker_task, nStarts, loopPc,
                   loopCancel, loopItem, input_queue, nSent, proc, taskCancel,
                   is_interruptible, sigOf, signal, interruptible_event,
                   current_task, started, terminated, effective>>
    /\ UNCHANGED <<input_janus_queue, output_janus_queue, output_queue,
                   toThread, relayCancel>>
    /\ UNCHANGED nonThreadVars

\* Faulty variant of RelayForward: of the items its source queue holds the
\* loop forwards the first and drops the others.
RelayForwardFirstOnly(r) ==
    /\ kind = TAW
    /\ relayPc[r] \in {"created", "get"}
    /\ \/ relayCancel[r]
       \/ r = ToThread /\ input_queue # <<>>
       \/ r = FromThread /\ output_janus_queue # <<>>
    /\ IF relayCancel[r]
       THEN /\ relayPc' = [relayPc EXCEPT ![r] = "cancelled"]
            /\ relayCancel' = [relayCancel EXCEPT ![r] = FALSE]
            /\ UNCHANGED <<input_queue, input_janus_queue, toThread,
                           output_janus_queue, output_queue>>
       ELSE /\ relayPc' = [relayPc EXCEPT ![r] = "get"]
            /\ UNCHANGED relayCancel
            /\ IF r = ToThread
               THEN /\ input_janus_queue' =
                          Append(input_janus_queue, Head(input_queue))
                    /\ toThread' = Append(toThread, Head(input_queue))
                    /\ input_queue' = <<>>
                    /\ UNCHANGED <<output_janus_queue, output_queue>>
               ELSE /\ output_queue' =
                          Append(output_queue, Head(output_janus_queue))
                    /\ output_janus_queue' = <<>>
                    /\ UNCHANGED <<input_queue, input_janus_queue, toThread>>
    /\ lastCall' = NoCall
    /\ UNCHANGED <<kind, max_concurrency, worker_task, nStarts, loopPc,
                   loopCancel, loopItem, nSent, proc, taskCancel,
                   is_interruptible, sigOf, signal, interruptible_event,
                   current_task, started, terminated, effective>>
    /\ UNCHANGED <<fwdPc, fwdCancel>>
    /\ UNCHANGED nonThreadVars
\* A step of _forward_to_thread or _forward_from_thead: the task gets the
\* CancelledError that is due and ends, or it moves every item its source
\* queue holds (get() does not suspend while the queue holds an item) and
\* suspends on the empty queue.
RelayForward(r) ==
    /\ kind = TAW
    /\ \/ relayPc[r] = "created"
       \/ /\ relayPc[r] = "get"
          /\ \/ relayCancel[r]
             \/ r = ToThread /\ input_queue # <<>>
             \/ r = FromThread /\ output_janus_queue # <<>>
    /\ IF relayCancel[r]
       THEN /\ relayPc' = [relayPc EXCEPT ![r] = "cancelled"]
            /\ relayCancel' = [relayCancel EXCEPT ![r] = FALSE]
            /\ UNCHANGED <<input_queue, input_janus_queue, toThread,
                           output_janus_queue, output_queue>>
       ELSE /\ relayPc' = [relayPc EXCEPT ![r] = "get"]
            /\ UNCHANGED relayCancel
            /\ IF r = ToThread
               THEN /\ input_janus_queue' = input_janus_queue \o input_queue
                    /\ toThread' = toThread \o input_queue
                    /\ input_queue' = <<>>
                    /\ UNCHANGED <<output_janus_queue, output_queue>>
               ELSE /\ output_queue' = output_queue \o output_janus_queue
                    /\ output_janus_queue' = <<>>
                    /\ UNCHANGED <<input_queue, input_janus_queue, toThread>>
    /\ lastCall' = NoCall
    /\ UNCHANGED <<kind, max_concurrency, worker_task, nStarts, loopPc,
                   loopCancel, loopItem, nSent, proc, taskCancel,
                   is_interruptible, sigOf, signal, interruptible_event,
                   current_task, started, terminated, effective>>
    /\ UNCHANGED <<fwdPc, fwdCancel>>
    /\ UNCHANGED nonThreadVars

\* run_thread_forwarding resumes from `await asyncio.gather(...)` once no
\* relay task is left: the gather future was cancelled, the CancelledError is
\* caught and the coroutine returns.
FwdResume ==
    /\ kind = TAW
    /\ fwdPc = "gather"
    /\ LiveRelays = {}
    /\ fwdPc' = "returned"
    /\ fwdCancel' = FALSE
    /\ lastCall' = NoCall
    /\ UNCHANGED <<kind, max_concurrency, worker_task, nStarts, loopPc,
                   loopCancel, loopItem, input_queue, nSent, proc, taskCancel,
                   is_interruptible, sigOf, signal, interruptible_event,
                   current_task, started, terminated, effective>>
    /\ UNCHANGED <<input_janus_queue, output_janus_queue, output_queue,
                   toThread, relayPc, relayCancel>>
    /\ UNCHANGED nonThreadVars

NextThread ==
    \/ ThreadStart
    \/ \E flag \in BOOLEAN, sig \in Items : SendNonblocking(flag, sig)
    \/ ThreadTerminate
    \/ ThreadRun
    \/ FwdStart
    \/ \E r \in Relays : RelayForward(r)
    \/ FwdResume

SpecThread == InitThread /\ [][NextThread]_vars

\* The event loop runs every task that is ready.
FairnessThread ==
    /\ WF_vars(FwdStart)
    /\ WF_vars(FwdResume)
    /\ \A r \in Relays : WF_vars(RelayForward(r))

FairSpecThread == SpecThread /\ FairnessThread

----------------------------------------------------------------------------
\* EventsManager

EventTypes == {"event_transcript", "event_phone_call_connected"}

\* No worker is part of the scenario.
NoWorker ==
    /\ kind = "none"
    /\ max_concurrency = 0
    /\ WorkerConstructed

InitEvents ==
    /\ NoWorker
    /\ InitThreadRest
    /\ InitCallRest
    /\ InitSynthRest
    /\ InitIoRest
    /\ subscriptions \in SUBSET EventTypes
    /\ EventsConstructed

\* Faulty variant of Subscribed: no filter.
SubscribedAlways(type) == TRUE
\* `event.type in self.subscriptions`
Subscribed(type) == type \in subscriptions

\* EventsManager.publish_event
PublishEvent(type) ==
    /\ Len(published) < MaxEvents
    /\ LET event == [id |-> Len(published) + 1, type |-> type]
       IN /\ published' = Append(published, event)
          /\ late' = IF ended THEN late \cup {event} ELSE late
          /\ queue' = IF Subscribed(type) THEN Append(queue, event) ELSE queue
          /\ lastCall' = [op |-> "publish_event", arg |-> event.id,
                          val |-> Subscribed(type)]
    /\ UNCHANGED <<subscriptions, active, startPc, handled, ended>>
    /\ UNCHANGED <<workerFields, threadVars, callVars, synthVars, ioVars>>

\* The owner makes a task of EventsManager.start(); the coroutine runs from
\* the task's first step.
StartEvents ==
    /\ startPc = "none"
    /\ startPc' = "created"
    /\ lastCall' = [op |-> "start", arg |-> 0, val |-> FALSE]
    /\ UNCHANGED <<subscriptions, queue, active, published, handled, ended,
                   late>>
    /\ UNCHANGED <<workerFields, threadVars, callVars, synthVars, ioVars>>

\* A step of EventsManager.start(), up to its next suspension. The first
\* step sets active; `await self.queue.get()` suspends only on an empty
\* queue, and a getter woken for a queue that was emptied meanwhile waits
\* again. After each event the loop tests self.active.
StartLoop ==
    /\ \/ startPc = "created"
       \/ startPc = "get" /\ queue # <<>>
    /\ active' = IF startPc = "created" THEN TRUE ELSE active
    /\ IF queue = <<>>
       THEN /\ startPc' = "get"
            /\ UNCHANGED <<queue, handled>>
       ELSE IF active'
            THEN /\ handled' = handled \o queue
                 /\ queue' = <<>>
                 /\ startPc' = "get"
            ELSE /\ handled' = Append(handled, Head(queue))
                 /\ queue' = Tail(queue)
                 /\ startPc' = "returned"
    /\ lastCall' = NoCall
    /\ UNCHANGED <<subscriptions, published, ended, late>>
    /\ UNCHANGED <<workerFields, threadVars, callVars, synthVars, ioVars>>

\* Faulty variant of Drained: end() handles one event only.
DrainedOne == IF queue = <<>> THEN <<>> ELSE <<Head(queue)>>
\* Faulty variant of Drained: end() takes the newest event first.
DrainedNewestFirst == [k \in 1..Len(queue) |-> queue[Len(queue) + 1 - k]]
\* The events end() takes with get_nowait() until QueueEmpty.
Drained == queue

\* EventsManager.end
EndEvents ==
    /\ active' = FALSE
    /\ handled' = handled \o Drained
    /\ queue' = SubSeq(queue, Len(Drained) + 1, Len(queue))
    /\ ended' = TRUE
    /\ lastCall' = [op |-> "end", arg |-> Len(Drained), val |-> FALSE]
    /\ UNCHANGED <<subscriptions, startPc, published, late>>
    /\ UNCHANGED <<workerFields, threadVars, callVars, synthVars, ioVars>>

NextEvents ==
    \/ \E type \in EventTypes : PublishEvent(type)
    \/ StartEvents
    \/ StartLoop
    \/ EndEvents

SpecEvents == InitEvents /\ [][NextEvents]_vars

\* The event loop runs the task of start() whenever it is ready.
FairSpecEvents == SpecEvents /\ WF_vars(StartLoop)

----------------------------------------------------------------------------
\* TwilioCall and VonageCall

Twilio == "twilio"
Vonage == "vonage"

\* `self.latest_media_timestamp + 20 < int(media["timestamp"])`
Tolerance == 20
\* `bytes_to_fill = 8 * (...)`
BytesPerMs == 8

\* The timestamps a media frame may carry.
MediaTimestamps == {0, 20, 21, 60}

\* What a read of the websocket may return: an empty text, None (which
\* handle_ws_message provides for), the start message with the stream
\* identifier, a media frame, the stop message, any other message.
Messages ==
    {[event |-> e, ts |-> 0] : e \in {"", "None", "start", "stop", "mark"}}
        \cup {[event |-> "media", ts |-> t] : t \in MediaTimestamps}

\* What a read of the websocket may raise.
Failures == {"WebSocketDisconnect", "RuntimeError"}

\* The config manager in src, and one whose delete_config is a coroutine
\* function, as the calls expect of a BaseConfigManager.
ConfigManagers == {"InMemoryConfigManager", "AsyncConfigManager"}

\* The conversation id of the call, and the id of another conversation.
CallId == 1
OtherId == 2
ConversationIds == {CallId, OtherId}

InitCall ==
    /\ NoWorker
    /\ InitThreadRest
    /\ InitEventsRest
    /\ InitSynthRest
    /\ InitIoRest
    /\ provider \in {Twilio, Vonage}
    /\ config_manager \in ConfigManagers
    /\ CallConstructed

Silence(bytes) == [silence |-> TRUE, n |-> bytes]
Chunk(frame) == [silence |-> FALSE, n |-> frame]

\* Faulty variant of BytesToFill: the tolerance is not taken off.
BytesToFillWholeGap(p, t) == BytesPerMs * (t - p)
\* `8 * (int(media["timestamp"]) - (self.latest_media_timestamp + 20))`
BytesToFill(p, t) == BytesPerMs * (t - (p + Tolerance))

\* What handle_ws_message gives to receive_audio for media frame number
\* `frame` with timestamp t when the recorded timestamp is p.
MediaAudio(p, t, frame) ==
    IF p + Tolerance < t
    THEN <<Silence(BytesToFill(p, t)), Chunk(frame)>>
    ELSE <<Chunk(frame)>>

\* InMemoryConfigManager.save_config
SaveConfig(cs, id, config) ==
    [i \in (DOMAIN cs) \cup {id} |-> IF i = id THEN config ELSE cs[i]]

\* Faulty variant of DeleteConfig: every configuration is dropped.
DeleteConfigAll(cs, id) == [i \in {} |-> "none"]
\* InMemoryConfigManager.delete_config
DeleteConfig(cs, id) == [i \in (DOMAIN cs) \ {id} |-> cs[i]]

\* InMemoryConfigManager.get_config
GetConfig(cs, id) == IF id \in DOMAIN cs THEN cs[id] ELSE "None"

\* `await self.config_manager.delete_config(self.id)` and `self.tear_down()`:
\* the configuration is deleted; delete_config of InMemoryConfigManager is
\* not a coroutine function and returns None, and `await None` raises
\* TypeError, which leaves attach_ws_and_start before tear_down. With an
\* awaitable result the call-ended event is published and the conversation
\* is terminated.
DeleteAndTearDown(how) ==
    /\ config_deleted' = TRUE
    /\ configs' = DeleteConfig(configs, CallId)
    /\ IF config_manager = "InMemoryConfigManager"
       THEN /\ callPc' = "TypeError"
            /\ UNCHANGED <<lifecycle, conversation_active>>
       ELSE /\ lifecycle' = Append(lifecycle, "PhoneCallEndedEvent")
            /\ conversation_active' = FALSE
            /\ callPc' = how

\* attach_ws_and_start up to its first read of the websocket, for a call made
\* from its saved configuration. A TwilioCall answered by a machine or a fax
\* is completed and torn down at once.
AttachWs(answered_by) ==
    /\ callPc = "init"
    /\ CallId \in DOMAIN configs
    /\ IF provider = Twilio /\ answered_by \in {"machine_start", "fax"}
       THEN DeleteAndTearDown("returned")
       ELSE /\ callPc' = "wait_start"
            /\ UNCHANGED <<conversation_active, lifecycle, config_deleted,
                           configs>>
    /\ UNCHANGED <<provider, config_manager, latest_media_timestamp,
                   stream_sid, nFrames, audio, stamps, connected, received>>
    /\ UNCHANGED <<workerVars, threadVars, eventVars, synthVars, ioVars>>

\* Faulty variant of StartConversation: the call goes on waiting for a start
\* message.
StartConversationAndWait(message) ==
    /\ conversation_active' = TRUE
    /\ connected' = [at |-> nFrames + 1, event |-> message.event]
    /\ lifecycle' = Append(lifecycle, "PhoneCallConnectedEvent")
    /\ callPc' = "wait_start"
\* The conversation is started and the call-connected event is published;
\* attach_ws_and_start enters its receive loop.
StartConversation(message) ==
    /\ conversation_active' = TRUE
    /\ connected' = [at |-> nFrames + 1, event |-> message.event]
    /\ lifecycle' = Append(lifecycle, "PhoneCallConnectedEvent")
    /\ callPc' = "receive"

\* A read returns while the call waits for the start message.
\* wait_for_twilio_start goes on reading until a start message comes and
\* stores its stream identifier; VonageCall takes the first message as the
\* start message.
ReceiveStart(message) ==
    /\ callPc = "wait_start"
    /\ nFrames < MaxFrames
    /\ nFrames' = nFrames + 1
    /\ received' = message
    /\ IF provider = Twilio
       THEN IF message.event = "start"
            THEN /\ stream_sid' = "streamSid"
                 /\ StartConversation(message)
            ELSE UNCHANGED <<stream_sid, conversation_active, connected,
                             lifecycle, callPc>>
       ELSE /\ StartConversation(message)
            /\ UNCHANGED stream_sid
    /\ UNCHANGED <<provider, config_manager, latest_media_timestamp, audio,
                   stamps, config_deleted, configs>>
    /\ UNCHANGED <<workerVars, threadVars, eventVars, synthVars, ioVars>>

\* TwilioCall.handle_ws_message
HandleWsMessage(message) ==
    IF message.event = "media"
    THEN /\ audio' = audio \o MediaAudio(latest_media_timestamp, message.ts,
                                         nFrames + 1)
         /\ latest_media_timestamp' = message.ts
         /\ stamps' = Append(stamps, message.ts)
    ELSE UNCHANGED <<audio, latest_media_timestamp, stamps>>

\* handle_ws_message returns PhoneCallAction.CLOSE_WEBSOCKET.
ClosesWebsocket(message) == message.event \in {"stop", "None"}

\* A read returns in the receive loop. TwilioCall handles the message and
\* leaves the loop on a stop message or None (json.loads raises on an empty
\* text); VonageCall gives the bytes to receive_audio. Both test self.active
\* before the next read, and after the loop delete the configuration and
\* tear down.
ReceiveMessage(message) ==
    /\ callPc = "receive"
    /\ nFrames < MaxFrames
    /\ nFrames' = nFrames + 1
    /\ received' = message
    /\ IF provider = Twilio
       THEN IF message.event = ""
            THEN UNCHANGED <<audio, latest_media_timestamp, stamps>>
            ELSE HandleWsMessage(message)
       ELSE /\ message.event = "media"
            /\ message.ts = 0
            /\ audio' = Append(audio, Chunk(nFrames + 1))
            /\ UNCHANGED <<latest_media_timestamp, stamps>>
    /\ IF provider = Twilio /\ message.event = ""
       THEN /\ callPc' = "JSONDecodeError"
            /\ UNCHANGED <<conversation_active, lifecycle, config_deleted,
                           configs>>
       ELSE IF (provider = Twilio /\ ClosesWebsocket(message))
                  \/ ~conversation_active
            THEN DeleteAndTearDown("returned")
            ELSE UNCHANGED <<conversation_active, lifecycle, config_deleted,
                             configs, callPc>>
    /\ UNCHANGED <<provider, config_manager, stream_sid, connected>>
    /\ UNCHANGED <<workerVars, threadVars, eventVars, synthVars, ioVars>>

\* A read of the websocket raises. Only the receive loop of VonageCall has a
\* handler, for WebSocketDisconnect; everything else leaves
\* attach_ws_and_start with the exception.
ReceiveRaises(failure) ==
    /\ callPc \in {"wait_start", "receive"}
    /\ nFrames < MaxFrames
    /\ nFrames' = nFrames + 1
    /\ received' = [event |-> failure, ts |-> 0]
    /\ IF provider = Vonage /\ callPc = "receive"
          /\ failure = "WebSocketDisconnect"
       THEN DeleteAndTearDown("returned")
       ELSE /\ callPc' = failure
            /\ UNCHANGED <<conversation_active, lifecycle, config_deleted,
                           configs>>
    /\ UNCHANGED <<provider, config_manager, latest_media_timestamp,
                   stream_sid, audio, stamps, connected>>
    /\ UNCHANGED <<workerVars, threadVars, eventVars, synthVars, ioVars>>

\* The conversation ends by itself (stop signal of the agent, idle timeout):
\* it is no longer active.
MarkTerminated ==
    /\ conversation_active
    /\ conversation_active' = FALSE
    /\ UNCHANGED <<provider, config_manager, callPc, latest_media_timestamp,
                   stream_sid, nFrames, audio, stamps, connected, lifecycle,
                   config_deleted, received, configs>>
    /\ UNCHANGED <<workerVars, threadVars, eventVars, synthVars, ioVars>>

\* TelephonyServer inbound route: the call is admitted and its configuration
\* is saved under a fresh conversation id.
InboundRoute(id, config) ==
    /\ id \notin DOMAIN configs
    /\ id = CallId => callPc = "init" /\ ~config_deleted /\ config = provider
    /\ configs' = SaveConfig(configs, id, config)
    /\ UNCHANGED <<provider, config_manager, callPc, conversation_active,
                   latest_media_timestamp, stream_sid, nFrames, audio, stamps,
                   connected, lifecycle, config_deleted, received>>
    /\ UNCHANGED <<workerVars, threadVars, eventVars, synthVars, ioVars>>

\* The session of the other conversation ends: delete_config(OtherId),
\* whether its configuration is there or not.
DeleteOther ==
    /\ configs' = DeleteConfig(configs, OtherId)
    /\ UNCHANGED <<provider, config_manager, callPc, conversation_active,
                   latest_media_timestamp, stream_sid, nFrames, audio, stamps,
                   connected, lifecycle, config_deleted, received>>
    /\ UNCHANGED <<workerVars, threadVars, eventVars, synthVars, ioVars>>

NextCall ==
    \/ \E id \in ConversationIds, config \in {Twilio, Vonage} :
          InboundRoute(id, config)
    \/ DeleteOther
    \/ \E answered_by \in {"human", "machine_start"} : AttachWs(answered_by)
    \/ \E message \in Messages : ReceiveStart(message)
    \/ \E message \in Messages : ReceiveMessage(message)
    \/ \E failure \in Failures : ReceiveRaises(failure)
    \/ MarkTerminated

SpecCall == InitCall /\ [][NextCall]_vars

----------------------------------------------------------------------------
\* SynthesisResult chunk generators (BaseSynthesizer, FillerAudio)

\* The two functions that hold the same chunk_generator.
Producers == {"create_synthesis_result_from_wav", "create_synthesis_result"}

\* The buffer whose byte number k is k, so that every byte can be told
\* from the others.
Buffer(length) == [k \in 1..length |-> k]

InitChunks ==
    /\ NoWorker
    /\ InitThreadRest
    /\ InitEventsRest
    /\ InitCallRest
    /\ InitCutoffRest
    /\ InitIoRest
    /\ output_bytes \in {Buffer(length) : length \in 0..MaxBytes}
    /\ chunk_size \in 1..MaxChunkSize
    /\ should_encode_as_wav \in BOOLEAN
    /\ producer \in Producers
    /\ genPos = 0
    /\ chunks = <<>>
    /\ exhausted = FALSE

\* encode_as_wav: the frames in a WAV container of their own.
EncodeAsWav(chunk) == [wav |-> TRUE, frames |-> chunk]
Raw(chunk) == [wav |-> FALSE, frames |-> chunk]

\* chunk_transform
ChunkTransform(chunk) ==
    IF should_encode_as_wav THEN EncodeAsWav(chunk) ELSE Raw(chunk)

\* Faulty variant of Slice: the slice starts one byte early.
SliceEarly(bytes, from, to) ==
    SubSeq(bytes, IF from = 0 THEN 1 ELSE from,
           IF to < Len(bytes) THEN to ELSE Len(bytes))
\* bytes[from:to]
Slice(bytes, from, to) ==
    SubSeq(bytes, from + 1, IF to < Len(bytes) THEN to ELSE Len(bytes))

\* The ChunkResult chunk_generator yields for the value i of its loop.
ChunkResult(i) ==
    IF i + chunk_size > Len(output_bytes)
    THEN [chunk |-> ChunkTransform(Slice(output_bytes, i, Len(output_bytes))),
          is_last_chunk |-> TRUE]
    ELSE [chunk |-> ChunkTransform(Slice(output_bytes, i, i + chunk_size)),
          is_last_chunk |-> FALSE]

\* The consumer asks chunk_generator for its next item and gets a chunk:
\* one round of `for i in range(0, len(output_bytes), chunk_size)`.
NextChunk ==
    /\ producer \in Producers
    /\ ~exhausted
    /\ genPos < Len(output_bytes)
    /\ chunks' = Append(chunks, ChunkResult(genPos))
    /\ genPos' = genPos + chunk_size
    /\ UNCHANGED <<output_bytes, chunk_size, should_encode_as_wav, producer,
                   exhausted>>
    /\ UNCHANGED <<workerVars, threadVars, eventVars, callVars, cutoffVars,
                   ioVars>>

\* The consumer asks for the next item and the range is used up.
GeneratorReturns ==
    /\ producer \in Producers
    /\ ~exhausted
    /\ genPos >= Len(output_bytes)
    /\ exhausted' = TRUE
    /\ UNCHANGED <<output_bytes, chunk_size, should_encode_as_wav, producer,
                   genPos, chunks>>
    /\ UNCHANGED <<workerVars, threadVars, eventVars, callVars, cutoffVars,
                   ioVars>>

NextChunks ==
    \/ NextChunk
    \/ GeneratorReturns

SpecChunks == InitChunks /\ [][NextChunks]_vars

\* ---------------------------------------------------------------------
\* Python's float: IEEE-754 binary64 with round-half-to-even.  A natural
\* number is held in Limbs limbs of LimbBits bits, least significant
\* first, because a significand has more bits than an integer of the
\* model checker.  The operations are functions, so that an argument is
\* computed once.
\* ---------------------------------------------------------------------

LimbBits == 14
Limbs == 8
\* bits of a significand
Precision == 53

RECURSIVE Pow2(_)
Pow2(k) == IF k = 0 THEN 1 ELSE 2 * Pow2(k - 1)

Base == Pow2(LimbBits)

\* every natural of Limbs limbs
Magnitudes == [1..Limbs -> 0..(Base - 1)]

NatZero == [i \in 1..Limbs |-> 0]
NatOne == [i \in 1..Limbs |-> IF i = 1 THEN 1 ELSE 0]

\* a natural below Base^3 as limbs
FromNat[n \in Nat] ==
    [i \in 1..Limbs |->
        IF i = 1 THEN n % Base
        ELSE IF i = 2 THEN (n \div Base) % Base
        ELSE IF i = 3 THEN n \div (Base * Base)
        ELSE 0]

\* the limbs as a natural; saturates at Base^2, which is more than the
\* length of every message
ToNat[x \in Magnitudes] ==
    IF \E i \in 3..Limbs : x[i] # 0 THEN Base * Base
    ELSE x[1] + Base * x[2]

LimbAt(x, i) == IF i >= 1 /\ i <= Limbs THEN x[i] ELSE 0

\* x * 2^k
ShiftLeft[x \in Magnitudes, k \in Nat] ==
    LET q == k \div LimbBits
        r == k % LimbBits
    IN  [i \in 1..Limbs |->
            ((LimbAt(x, i - q) * Pow2(r)) % Base)
            + (LimbAt(x, i - q - 1) \div Pow2(LimbBits - r))]

\* x \div 2^k
ShiftRight[x \in Magnitudes, k \in Nat] ==
    LET q == k \div LimbBits
        r == k % LimbBits
    IN  [i \in 1..Limbs |->
            (LimbAt(x, i + q) \div Pow2(r))
            + ((LimbAt(x, i + q + 1) % Pow2(r)) * Pow2(LimbBits - r))]

\* number of bits of x
BitLength[x \in Magnitudes] ==
    LET used == {i \in 1..Limbs : x[i] # 0}
    IN  IF used = {} THEN 0
        ELSE LET top == CHOOSE i \in used : \A j \in used : j <= i
                 bits == CHOOSE b \in 1..LimbBits :
                             Pow2(b - 1) <= x[top] /\ x[top] < Pow2(b)
             IN  (top - 1) * LimbBits + bits

\* bit k of x, bit 0 the least significant
Bit[x \in Magnitudes, k \in Nat] ==
    (x[k \div LimbBits + 1] \div Pow2(k % LimbBits)) % 2

\* the k low bits of x are zero
LowBitsZero[x \in Magnitudes, k \in Nat] == ShiftLeft[ShiftRight[x, k], k] = x

Less[x \in Magnitudes, y \in Magnitudes] ==
    LET differ == {i \in 1..Limbs : x[i] # y[i]}
    IN  /\ differ # {}
        /\ LET top == CHOOSE i \in differ : \A j \in differ : j <= i
           IN  x[top] < y[top]

NatAdd[x \in Magnitudes, y \in Magnitudes] ==
    LET carry[i \in 0..Limbs] ==
            IF i = 0 THEN 0 ELSE (x[i] + y[i] + carry[i - 1]) \div Base
    IN  [i \in 1..Limbs |-> (x[i] + y[i] + carry[i - 1]) % Base]

\* x - y for x >= y
NatSub[x \in Magnitudes, y \in Magnitudes] ==
    LET borrow[i \in 0..Limbs] ==
            IF i = 0 THEN 0
            ELSE IF x[i] - y[i] - borrow[i - 1] < 0 THEN 1 ELSE 0
    IN  [i \in 1..Limbs |-> (x[i] - y[i] - borrow[i - 1] + Base) % Base]

\* x * y for two significands, of four limbs each
NatMul[x \in Magnitudes, y \in Magnitudes] ==
    LET term(i, k) ==
            IF k + 1 - i >= 1 /\ k + 1 - i <= 4
            THEN x[i] * y[k + 1 - i] ELSE 0
        column(k) == term(1, k) + term(2, k) + term(3, k) + term(4, k)
        carry[k \in 0..Limbs] ==
            IF k = 0 THEN 0 ELSE (column(k) + carry[k - 1]) \div Base
    IN  [k \in 1..Limbs |-> (column(k) + carry[k - 1]) % Base]

\* Restoring division of two significands: Precision + 3 bits of the
\* quotient of a / b, most significant first, and the remainder left.
Quotient[a \in Magnitudes, b \in Magnitudes] ==
    LET bit[s \in [r : Magnitudes, q : Magnitudes, steps : 0..(Precision + 3)]] ==
            IF s.steps = 0 THEN s
            ELSE LET fits == ~Less[s.r, b]
                     rest == IF fits THEN NatSub[s.r, b] ELSE s.r
                     doubled == ShiftLeft[s.q, 1]
                 IN  bit[[r |-> ShiftLeft[rest, 1],
                          q |-> IF fits THEN [doubled EXCEPT ![1] = @ + 1]
                                ELSE doubled,
                          steps |-> s.steps - 1]]
    IN  bit[[r |-> a, q |-> NatZero, steps |-> Precision + 3]]

Floats == [sign : {-1, 1}, m : Magnitudes, e : Int]
FloatZero == [sign |-> 1, m |-> NatZero, e |-> 0]
IsZero(f) == f.m = NatZero

\* The float nearest to sign * m * 2^e, ties to the even significand;
\* `inexact` says that the exact value is a little more than m * 2^e.
RoundToFloat[sign \in {-1, 1}, m \in Magnitudes, e \in Int, inexact \in BOOLEAN] ==
    LET length == BitLength[m]
        drop == length - Precision
    IN  IF length = 0 THEN FloatZero
        ELSE IF drop <= 0
        THEN [sign |-> sign, m |-> ShiftLeft[m, -drop], e |-> e + drop]
        ELSE LET kept == ShiftRight[m, drop]
                 half == Bit[m, drop - 1] = 1
                 more == inexact \/ ~LowBitsZero[m, drop - 1]
                 up == half /\ (more \/ Bit[kept, 0] = 1)
                 rounded == IF up THEN NatAdd[kept, NatOne] ELSE kept
             IN  IF BitLength[rounded] > Precision
                 THEN [sign |-> sign, m |-> ShiftRight[rounded, 1],
                       e |-> e + drop + 1]
                 ELSE [sign |-> sign, m |-> rounded, e |-> e + drop]

\* float(n) for an int n
FromInt[n \in Int] ==
    RoundToFloat[IF n < 0 THEN -1 ELSE 1,
                 FromNat[IF n < 0 THEN -n ELSE n], 0, FALSE]

\* the float of `quarters` quarters of a second
FromQuarters[quarters \in Int] ==
    LET f == FromInt[quarters]
    IN  IF IsZero(f) THEN f ELSE [f EXCEPT !.e = @ - 2]

\* a / b for b # 0
FloatDiv[a \in Floats, b \in Floats] ==
    IF IsZero(a) THEN FloatZero
    ELSE LET d == Quotient[a.m, b.m]
         IN  RoundToFloat[a.sign * b.sign, d.q,
                          a.e - b.e - (Precision + 2), d.r # NatZero]

\* a * b
FloatMul[a \in Floats, b \in Floats] ==
    IF IsZero(a) \/ IsZero(b) THEN FloatZero
    ELSE RoundToFloat[a.sign * b.sign, NatMul[a.m, b.m], a.e + b.e, FALSE]

\* the whole part of |f|
WholePart[f \in Floats] ==
    IF IsZero(f) THEN 0
    ELSE IF f.e >= 0 THEN Base * Base
    ELSE IF -f.e >= Precision THEN 0
    ELSE ToNat[ShiftRight[f.m, -f.e]]

\* f has a fractional part
HasFraction[f \in Floats] ==
    /\ ~IsZero(f)
    /\ f.e < 0
    /\ (-f.e >= Precision \/ ~LowBitsZero[f.m, -f.e])

\* int(f): towards zero
Truncate[f \in Floats] == f.sign * WholePart[f]

\* math.floor(f)
Floor[f \in Floats] ==
    IF f.sign < 0 /\ HasFraction[f] THEN -WholePart[f] - 1
    ELSE f.sign * WholePart[f]

\* =====================================================================
\* The cutoff estimators of BaseSynthesizer: how much of a message was
\* spoken after `seconds` seconds.  A text is a sequence of characters.
\* =====================================================================

MaxQuarters == 4
MaxSize == 5
MaxRate == 3

Fox == <<"t", "h", "e", " ", "q", "u", "i", "c", "k", " ",
         "b", "r", "o", "w", "n", " ", "f", "o", "x">>
Greeting == <<"h", "i", ",", " ", "t", "h", "e", "r", "e", ".">>
Hello == <<"h", "e", "l", "l", "o">>
Spaced == <<"a", " ", " ", "b">>
\* 56 one-letter words
Long == [i \in 1..111 |-> IF i % 2 = 1 THEN "a" ELSE " "]

Texts == {<<>>, Fox, Greeting, Hello, Spaced, Long}
Quarters == ((-MaxQuarters)..MaxQuarters) \cup {75}
SizesOfOutput == (0..MaxSize) \cup {10000}
SamplingRates == (1..MaxRate) \cup {10000}
WordsPerMinute == {60, 176}
\* the functions a synthesizer binds get_message_up_to to
CutoffFunctions == {"total_response_length", "voice_speed"}

InitCutoff ==
    /\ NoWorker
    /\ InitThreadRest
    /\ InitEventsRest
    /\ InitCallRest
    /\ InitChunksRest
    /\ InitIoRest
    /\ text \in Texts
    /\ seconds \in Quarters
    /\ get_message_up_to \in CutoffFunctions
    /\ IF get_message_up_to = "total_response_length"
       THEN /\ size_of_output \in SizesOfOutput
            /\ sampling_rate \in SamplingRates
            /\ words_per_minute = 0
       ELSE /\ size_of_output = 0
            /\ sampling_rate = 1
            /\ words_per_minute \in WordsPerMinute
    /\ cutoff = NoCutoff

\* sequence[:stop]
SliceTo(sequence, stop) ==
    IF stop >= 0
    THEN SubSeq(sequence, 1, IF stop < Len(sequence) THEN stop
                             ELSE Len(sequence))
    ELSE SubSeq(sequence, 1, Len(sequence) + stop)

Whitespace == {" "}
Punctuation == {",", "."}

\* nltk's word_tokenize on these texts: the words between whitespace,
\* and every punctuation mark a token of its own.
word_tokenize(string) ==
    LET n == Len(string)
        InWord(i) == string[i] \notin Whitespace \cup Punctuation
        WordEnd(i) ==
            CHOOSE j \in i..n :
                /\ \A h \in i..j : InWord(h)
                /\ j = n \/ ~InWord(j + 1)
        from[i \in 1..(n + 1)] ==
            IF i > n THEN <<>>
            ELSE IF string[i] \in Whitespace THEN from[i + 1]
            ELSE IF string[i] \in Punctuation
            THEN <<SubSeq(string, i, i)>> \o from[i + 1]
            ELSE <<SubSeq(string, i, WordEnd(i))>> \o from[WordEnd(i) + 1]
    IN  from[1]

\* TreebankWordDetokenizer().detokenize on such tokens: the tokens
\* joined by single spaces, no space before a punctuation mark.
detokenize(tokens) ==
    LET joined[k \in 0..Len(tokens)] ==
            IF k = 0 THEN <<>>
            ELSE joined[k - 1]
                 \o (IF k = 1 \/ tokens[k][1] \in Punctuation
                     THEN <<>> ELSE <<" ">>)
                 \o tokens[k]
    IN  joined[Len(tokens)]

estimated_output_seconds ==
    FloatDiv[FromInt[size_of_output], FromInt[sampling_rate]]

estimated_output_seconds_per_char ==
    FloatDiv[estimated_output_seconds, FromInt[Len(text)]]

\* What get_message_cutoff_from_total_response_length returns or raises.
get_message_cutoff_from_total_response_length ==
    IF text = <<>>
    THEN [of |-> "total_response_length", error |-> "none", value |-> text]
    ELSE IF IsZero(estimated_output_seconds_per_char)
    THEN [of |-> "total_response_length", error |-> "ZeroDivisionError",
          value |-> <<>>]
    ELSE [of |-> "total_response_length", error |-> "none",
          value |-> SliceTo(text,
                       Truncate[FloatDiv[FromQuarters[seconds],
                                    estimated_output_seconds_per_char]])]

words_per_second == FloatDiv[FromInt[words_per_minute], FromInt[60]]

estimated_words_spoken ==
    Floor[FloatMul[words_per_second, FromQuarters[seconds]]]

\* What get_message_cutoff_from_voice_speed returns.
get_message_cutoff_from_voice_speed ==
    [of |-> "voice_speed", error |-> "none",
     value |-> detokenize(SliceTo(word_tokenize(text),
                                  estimated_words_spoken))]

\* get_message_up_to(seconds), bound to
\* get_message_cutoff_from_total_response_length.
CutoffFromTotalResponseLength ==
    /\ get_message_up_to = "total_response_length"
    /\ cutoff = NoCutoff
    /\ cutoff' = get_message_cutoff_from_total_response_length
    /\ UNCHANGED <<text, seconds, size_of_output, sampling_rate,
                   words_per_minute, get_message_up_to>>
    /\ UNCHANGED <<workerVars, threadVars, eventVars, callVars, chunkVars,
                   ioVars>>

\* get_message_up_to(seconds), bound to
\* get_message_cutoff_from_voice_speed.
CutoffFromVoiceSpeed ==
    /\ get_message_up_to = "voice_speed"
    /\ cutoff = NoCutoff
    /\ cutoff' = get_message_cutoff_from_voice_speed
    /\ UNCHANGED <<text, seconds, size_of_output, sampling_rate,
                   words_per_minute, get_message_up_to>>
    /\ UNCHANGED <<workerVars, threadVars, eventVars, callVars, chunkVars,
                   ioVars>>

NextCutoff ==
    \/ CutoffFromTotalResponseLength
    \/ CutoffFromVoiceSpeed

SpecCutoff == InitCutoff /\ [][NextCutoff]_vars

\* FillerAudio.create_synthesis_result: the SynthesisResult of a filler has
\* the chunk generator over audio_data and a get_message_up_to of its own.
InitFiller ==
    /\ NoWorker
    /\ InitThreadRest
    /\ InitEventsRest
    /\ InitCallRest
    /\ InitIoRest
    /\ output_bytes \in {Buffer(length) : length \in 0..MaxBytes}
    /\ chunk_size \in 1..MaxChunkSize
    /\ should_encode_as_wav \in BOOLEAN
    /\ producer = "create_synthesis_result"
    /\ genPos = 0
    /\ chunks = <<>>
    /\ exhausted = FALSE
    /\ text \in Texts
    /\ seconds \in Quarters
    /\ size_of_output = 0
    /\ sampling_rate = 1
    /\ words_per_minute = 0
    /\ get_message_up_to = "message_text"
    /\ cutoff = NoCutoff

\* Faulty variant of MessageText: the first characters, one per quarter of
\* a second.
MessageTextElapsed == SliceTo(text, seconds)
\* `lambda seconds: self.message.text`
MessageText == text

\* get_message_up_to(seconds) of a filler, at any point of its playback.
CutoffFromMessageText ==
    /\ get_message_up_to = "message_text"
    /\ cutoff = NoCutoff
    /\ cutoff' = [of |-> "message_text", error |-> "none",
                  value |-> MessageText]
    /\ UNCHANGED <<text, seconds, size_of_output, sampling_rate,
                   words_per_minute, get_message_up_to>>
    /\ UNCHANGED <<workerVars, threadVars, eventVars, callVars, chunkVars,
                   ioVars>>

NextFiller ==
    \/ NextChunk
    \/ GeneratorReturns
    \/ CutoffFromMessageText

SpecFiller == InitFiller /\ [][NextFiller]_vars

\* =====================================================================
\* GoogleTranscriber: a ThreadAsyncWorker whose thread runs run().  The
\* recognizer pulls the audio from generator() while
\* process_responses_loop handles what it answers; the relay loops are
\* those of ThreadAsyncWorker.  A chunk is an item sent, or None.
\* =====================================================================

MaxResponses == 2
None == 0

\* The end-of-stream sentinel has been sent.
NoneSent ==
    \/ \E k \in DOMAIN input_queue : input_queue[k] = None
    \/ \E k \in DOMAIN toThread : toThread[k] = None

\* send_nonblocking(None): the owner ends the audio stream.
SendNone ==
    /\ kind = TAW
    /\ ~NoneSent
    /\ input_queue' = Append(input_queue, None)
    /\ lastCall' = [op |-> "send_nonblocking", arg |-> None, val |-> FALSE]
    /\ UNCHANGED <<kind, max_concurrency, worker_task, nStarts, loopPc,
                   loopCancel, loopItem, nSent, proc, taskCancel,
                   is_interruptible, sigOf, signal, interruptible_event,
                   current_task, started, terminated, effective>>
    /\ UNCHANGED <<threadVars, nonThreadVars>>

\* GoogleTranscriber.terminate: it sets the flag and nothing else.
GoogleTerminate ==
    /\ kind = TAW
    /\ nStarts >= 1
    /\ _ended' = TRUE
    /\ terminated' = TRUE
    /\ lastCall' = [op |-> "terminate", arg |-> 0, val |-> FALSE]
    /\ UNCHANGED <<kind, max_concurrency, worker_task, nStarts, loopPc,
                   loopCancel, loopItem, input_queue, nSent, proc, taskCancel,
                   is_interruptible, sigOf, signal, interruptible_event,
                   current_task, started, effective>>
    /\ UNCHANGED <<streamPc, data, taken, yielded, respPc, responses>>
    /\ UNCHANGED <<threadVars, eventVars, callVars, synthVars, deviceVars>>

\* The recognizer asks generator() for its next item: the generator tests
\* `while not self._ended` and goes to the blocking get(), or returns.
GeneratorNext ==
    /\ kind = TAW
    /\ nStarts >= 1
    /\ streamPc \in {"none", "yield"}
    /\ streamPc' = IF _ended THEN "returned" ELSE "get"
    /\ data' = <<>>
    /\ lastCall' = NoCall
    /\ UNCHANGED <<_ended, taken, yielded, respPc, responses>>
    /\ UNCHANGED <<workerFields, threadVars, eventVars, callVars, synthVars, deviceVars>>

\* data.append(chunk), and data = [chunk] for the first chunk
Batch(batch, chunk) == Append(batch, chunk)

\* What the chunk taken makes of the generator: None ends it, and any other
\* chunk joins the batch.
TakeChunk(chunk) ==
    /\ taken' = Append(taken, chunk)
    /\ input_janus_queue' = Tail(input_janus_queue)
    /\ IF chunk = None
       THEN /\ streamPc' = "returned"
            /\ UNCHANGED data
       ELSE /\ streamPc' = "get_nowait"
            /\ data' = Batch(data, chunk)

\* generator(): sync_q.get() returns a chunk.
GeneratorGet ==
    /\ kind = TAW
    /\ streamPc = "get"
    /\ input_janus_queue # <<>>
    /\ TakeChunk(Head(input_janus_queue))
    /\ lastCall' = NoCall
    /\ UNCHANGED <<_ended, yielded, respPc, responses>>
    /\ UNCHANGED <<output_janus_queue, output_queue, toThread, fwdPc,
                   fwdCancel, relayPc, relayCancel>>
    /\ UNCHANGED <<workerFields, eventVars, callVars, synthVars, deviceVars>>

\* generator(): sync_q.get_nowait() returns a chunk, or raises queue.Empty
\* and the batch is yielded.
GeneratorGetNowait ==
    /\ kind = TAW
    /\ streamPc = "get_nowait"
    /\ IF input_janus_queue = <<>>
       THEN /\ yielded' = Append(yielded, data)
            /\ streamPc' = "yield"
            /\ UNCHANGED <<data, taken, input_janus_queue>>
       ELSE /\ TakeChunk(Head(input_janus_queue))
            /\ UNCHANGED yielded
    /\ lastCall' = NoCall
    /\ UNCHANGED <<_ended, respPc, responses>>
    /\ UNCHANGED <<output_janus_queue, output_queue, toThread, fwdPc,
                   fwdCancel, relayPc, relayCancel>>
    /\ UNCHANGED <<workerFields, eventVars, callVars, synthVars, deviceVars>>

\* process_responses_loop gets a response from the recognizer:
\* _on_response puts its transcription on the output janus queue if it has
\* one, and then the loop looks at _ended.
Response(has_alternative) ==
    /\ kind = TAW
    /\ nStarts >= 1
    /\ respPc = "none"
    /\ streamPc # "returned"
    /\ Len(responses) < MaxResponses
    /\ responses' = Append(responses, [after_terminate |-> _ended,
                                       put |-> has_alternative])
    /\ output_janus_queue' =
          IF has_alternative
          THEN Append(output_janus_queue, Len(responses) + 1)
          ELSE output_janus_queue
    /\ respPc' = IF _ended THEN "break" ELSE "none"
    /\ lastCall' = NoCall
    /\ UNCHANGED <<_ended, streamPc, data, taken, yielded>>
    /\ UNCHANGED <<input_janus_queue, output_queue, toThread, fwdPc,
                   fwdCancel, relayPc, relayCancel>>
    /\ UNCHANGED <<workerFields, eventVars, callVars, synthVars, deviceVars>>

\* The request stream is over and the recognizer ends the responses.
ResponsesEnd ==
    /\ kind = TAW
    /\ respPc = "none"
    /\ streamPc = "returned"
    /\ respPc' = "end"
    /\ lastCall' = NoCall
    /\ UNCHANGED <<_ended, streamPc, data, taken, yielded, responses>>
    /\ UNCHANGED <<workerFields, threadVars, eventVars, callVars, synthVars, deviceVars>>

\* ThreadAsyncWorker.terminate is overridden and nothing cancels the task of
\* run_thread_forwarding, so that it never resumes from gather.
NextGoogle ==
    \/ ThreadStart
    \/ \E flag \in BOOLEAN, sig \in Items : SendNonblocking(flag, sig)
    \/ SendNone
    \/ GoogleTerminate
    \/ FwdStart
    \/ \E r \in Relays : RelayForward(r)
    \/ GeneratorNext
    \/ GeneratorGet
    \/ GeneratorGetNowait
    \/ \E has_alternative \in BOOLEAN : Response(has_alternative)
    \/ ResponsesEnd

SpecGoogle == InitThread /\ [][NextGoogle]_vars

\* The event loop runs every task that is ready, and the threads run.
FairSpecGoogle ==
    /\ SpecGoogle
    /\ FairnessThread
    /\ WF_vars(GeneratorNext)
    /\ WF_vars(GeneratorGet)
    /\ WF_vars(GeneratorGetNowait)
    /\ WF_vars(ResponsesEnd)

\* =====================================================================
\* The output_queue parameter of the workers' constructors.
\* =====================================================================

InitQueues ==
    /\ NoWorker
    /\ InitThreadRest
    /\ InitEventsRest
    /\ InitCallRest
    /\ InitSynthRest
    /\ InitGoogleRest
    /\ InitWebsocketRest
    /\ InitQueuesRest

\* The asyncio.Queue() an owner makes to pass as output_queue.
FreshQueue == Cardinality(Classes) + Len(workers) + 1

\* cls(input_queue) or cls(input_queue, output_queue): __init__ stores the
\* queue given, or the default value of the parameter.
Construct(cls, explicit) ==
    /\ Len(workers) < MaxWorkers
    /\ workers' = Append(workers,
                         [class |-> cls,
                          explicit |-> explicit,
                          output_queue |-> IF explicit THEN FreshQueue
                                           ELSE DefaultQueue[cls]])
    /\ UNCHANGED <<queues, observed>>
    /\ UNCHANGED <<workerVars, threadVars, eventVars, callVars, synthVars,
                   googleVars, websocketVars>>

\* The number of items put so far on the queue q that are still known.
Puts(q) ==
    Len(queues[q]) + Cardinality({k \in DOMAIN observed :
                                    workers[observed[k].through].output_queue
                                       = q})

\* Worker w puts an item on self.output_queue; the item names its producer.
PutOutput(w) ==
    /\ w \in DOMAIN workers
    /\ Puts(workers[w].output_queue) < MaxPuts
    /\ queues' = [queues EXCEPT ![workers[w].output_queue] = Append(@, w)]
    /\ UNCHANGED <<workers, observed>>
    /\ UNCHANGED <<workerVars, threadVars, eventVars, callVars, synthVars,
                   googleVars, websocketVars>>

\* The consumer of worker w gets an item from w.output_queue.
GetOutput(w) ==
    /\ w \in DOMAIN workers
    /\ queues[workers[w].output_queue] # <<>>
    /\ observed' = Append(observed,
                          [through |-> w,
                           item |-> Head(queues[workers[w].output_queue])])
    /\ queues' = [queues EXCEPT ![workers[w].output_queue] = Tail(@)]
    /\ UNCHANGED workers
    /\ UNCHANGED <<workerVars, threadVars, eventVars, callVars, synthVars,
                   googleVars, websocketVars>>

NextQueues ==
    \/ \E cls \in Classes, explicit \in BOOLEAN : Construct(cls, explicit)
    \/ \E w \in 1..MaxWorkers : PutOutput(w)
    \/ \E w \in 1..MaxWorkers : GetOutput(w)

SpecQueues == InitQueues /\ [][NextQueues]_vars

\* =====================================================================
\* WebsocketOutputDevice
\* =====================================================================

MaxChunks == 3

InitWebsocket ==
    /\ NoWorker
    /\ InitThreadRest
    /\ InitEventsRest
    /\ InitCallRest
    /\ InitSynthRest
    /\ InitGoogleRest
    /\ InitQueuesRest
    /\ InitWebsocketRest

\* AudioMessage.from_bytes(chunk).json(): the text of a message that
\* carries the chunk.
AudioMessage(chunk) == [type |-> "websocket_audio", data |-> chunk]

\* Faulty variant of Accepts: the device does not look at self.active.
AcceptsAlways == TRUE
\* `if self.active:`
Accepts == device_active

\* WebsocketOutputDevice.send_nonblocking; the chunks are numbered in the
\* order of the calls.
DeviceSendNonblocking ==
    /\ Len(submitted) < MaxChunks
    /\ LET chunk == Len(submitted) + 1
       IN /\ submitted' = Append(submitted, [chunk |-> chunk,
                                             active |-> device_active])
          /\ device_queue' = IF Accepts
                             THEN Append(device_queue, AudioMessage(chunk))
                             ELSE device_queue
    /\ UNCHANGED <<device_active, process_task, ws, sent_at_close>>
    /\ UNCHANGED <<workerVars, threadVars, eventVars, callVars, synthVars,
                   googleVars, queueVars>>

\* WebsocketOutputDevice.mark_closed
MarkClosed ==
    /\ device_active' = FALSE
    /\ sent_at_close' = IF device_active THEN Len(ws) ELSE sent_at_close
    /\ UNCHANGED <<device_queue, process_task, ws, submitted>>
    /\ UNCHANGED <<workerVars, threadVars, eventVars, callVars, synthVars,
                   googleVars, queueVars>>

\* process() from `while self.active` to its next suspension: the loop is
\* left, or queue.get() returns the head of a non-empty queue at once and
\* ws.send_text is called with it, or get() suspends on the empty queue.
Iterate ==
    IF ~device_active
    THEN /\ process_task' = "done"
         /\ UNCHANGED <<device_queue, ws>>
    ELSE IF device_queue # <<>>
         THEN /\ ws' = Append(ws, Head(device_queue))
              /\ device_queue' = Tail(device_queue)
              /\ process_task' = "send_text"
         ELSE /\ process_task' = "get"
              /\ UNCHANGED <<device_queue, ws>>

\* The first step of the task of process().
ProcessStart ==
    /\ process_task = "created"
    /\ Iterate
    /\ UNCHANGED <<device_active, submitted, sent_at_close>>
    /\ UNCHANGED <<workerVars, threadVars, eventVars, callVars, synthVars,
                   googleVars, queueVars>>

\* The task suspended in `await self.queue.get()` resumes with the head of
\* the queue and calls ws.send_text; self.active is not looked at.
ProcessWake ==
    /\ process_task = "get"
    /\ device_queue # <<>>
    /\ ws' = Append(ws, Head(device_queue))
    /\ device_queue' = Tail(device_queue)
    /\ process_task' = "send_text"
    /\ UNCHANGED <<device_active, submitted, sent_at_close>>
    /\ UNCHANGED <<workerVars, threadVars, eventVars, callVars, synthVars,
                   googleVars, queueVars>>

\* `await self.ws.send_text(message)` returns, or raises because the
\* websocket is closed.
SendText(raises) ==
    /\ process_task = "send_text"
    /\ IF raises
       THEN /\ process_task' = "failed"
            /\ UNCHANGED <<device_queue, ws>>
       ELSE Iterate
    /\ UNCHANGED <<device_active, submitted, sent_at_close>>
    /\ UNCHANGED <<workerVars, threadVars, eventVars, callVars, synthVars,
                   googleVars, queueVars>>

\* WebsocketOutputDevice.terminate: process_task.cancel() ends a task that
\* is not over at the await where it is suspended.
DeviceTerminate ==
    /\ process_task' = IF process_task \in {"created", "get", "send_text"}
                       THEN "cancelled"
                       ELSE process_task
    /\ UNCHANGED <<device_active, device_queue, ws, submitted, sent_at_close>>
    /\ UNCHANGED <<workerVars, threadVars, eventVars, callVars, synthVars,
                   googleVars, queueVars>>

NextWebsocket ==
    \/ DeviceSendNonblocking
    \/ MarkClosed
    \/ ProcessStart
    \/ ProcessWake
    \/ \E raises \in BOOLEAN : SendText(raises)
    \/ DeviceTerminate

SpecWebsocket == InitWebsocket /\ [][NextWebsocket]_vars

----------------------------------------------------------------------------
\* Properties

InQueue(q, x) == \E k \in DOMAIN q : q[k] = x
Count(q, x) == Cardinality({k \in DOMAIN q : q[k] = x})
\* The process() tasks (or calls) that were started and are not over.
InFlight == {e \in Items : proc[e] \in {"pending", "running"}}
\* The step takes x off the input queue.
Dequeued(x) == InQueue(input_queue, x) /\ ~InQueue(input_queue', x)
\* The loop task awaiting the task of e, if any.
Awaited(e) == \E i \in Loops : loopPc[i] = "await" /\ loopItem[i] = e

\* C1: an InterruptibleWorker started once has at most one process() task in
\* flight at every moment, whatever max_concurrency is, and takes nothing off
\* its input queue while the task of the previous event is unfinished.
C1_OneTaskInFlight ==
    /\ [](kind = IW => Cardinality(InFlight) <= 1)
    /\ [][kind = IW /\ input_queue' # input_queue
             /\ Len(input_queue') <= Len(input_queue)
          => InFlight = {}]_vars

C1_Witness ==
    /\ kind = IW
    /\ max_concurrency = DefaultMaxConcurrency
    /\ Cardinality(InFlight) = 1
    /\ Len(input_queue) >= 2

\* C2: cancel_current_task() requests the cancellation of the current task
\* and returns true exactly when a current task exists, is not done and its
\* event is still interruptible; otherwise it returns false and requests no
\* cancellation.
C2_CancelCurrentTask ==
    [][CancelCurrentTask =>
         LET can == /\ current_task # 0
                    /\ ~TaskDone(current_task)
                    /\ is_interruptible[current_task]
         IN  /\ lastCall'.val = can
             /\ can => taskCancel'[current_task]
             /\ ~can => taskCancel' = taskCancel
             /\ proc' = proc /\ loopCancel' = loopCancel]_vars

C2_Witness ==
    /\ lastCall.op = "cancel_current_task"
    /\ lastCall.val
    /\ current_task # 0
    /\ proc[current_task] = "running"
    /\ taskCancel[current_task]

\* C3: once the process() task of a dequeued event has finished (returned,
\* raised, or was cancelled through cancel_current_task()) and the loop is no
\* longer awaiting it, the event's is_interruptible flag is false.
C3_FinishedEventNotInterruptible ==
    (kind = IW /\ ~terminated) =>
        \A e \in Items :
            (TaskDone(e) /\ ~Awaited(e)) => ~is_interruptible[e]

\* C4 as claimed: an event whose signal is set when it is dequeued is
\* dropped, whatever its is_interruptible flag.
C4_StaleDroppedAnyFlag ==
    [][\A e \in Items :
          (kind = IW /\ Dequeued(e) /\ signal[sigOf[e]])
             => (proc'[e] = "none" /\ interruptible_event' # e)]_vars

\* C4 amended: an event is dropped at dequeue (process() is never invoked on
\* it and it never becomes the active event) exactly when its signal is set
\* and its is_interruptible flag is true at that moment; an event whose flag
\* is false is processed even when its signal is set.
C4_StaleDroppedIfInterruptible ==
    /\ [][\A e \in Items :
             (kind = IW /\ Dequeued(e)) =>
                IF is_interruptible[e] /\ signal[sigOf[e]]
                THEN proc'[e] = "none" /\ interruptible_event' # e
                ELSE proc'[e] = "pending" /\ interruptible_event' = e]_vars
    /\ [][\A e \in Items :
             (kind = IW /\ e <= nSent /\ ~InQueue(input_queue, e)
                /\ proc[e] = "none")
             => (proc'[e] = "none" /\ interruptible_event' # e)]_vars

C4_Witness ==
    /\ kind = IW
    /\ \E e \in 1..nSent :
          /\ ~InQueue(input_queue, e) /\ proc[e] = "none"
          /\ is_interruptible[e] /\ signal[sigOf[e]]
    /\ \E e \in 1..nSent :
          /\ proc[e] = "pending"
          /\ ~is_interruptible[e] /\ signal[sigOf[e]]

\* C5: interrupt() on an event whose flag is false returns false and leaves
\* the signal and the flag as they are; on an interruptible event it sets
\* the signal and returns true.
C5_Interrupt ==
    [][\A e \in Items :
          Interrupt(e) =>
             /\ is_interruptible' = is_interruptible
             /\ IF is_interruptible[e]
                THEN signal'[sigOf[e]] /\ lastCall'.val = TRUE
                ELSE signal' = signal /\ lastCall'.val = FALSE]_vars

C5_Witness ==
    /\ lastCall.op = "interrupt"
    /\ ~lastCall.val
    /\ ~is_interruptible[lastCall.arg]
    /\ ~signal[sigOf[lastCall.arg]]
    /\ InQueue(input_queue, lastCall.arg)

\* C6: after terminate() on a started worker process() is never started on a
\* further item, whatever process() does with CancelledError.
C6_NoStartAfterTerminate ==
    [][terminated => started' = started]_vars

\* C7 as claimed: each item sent to an AsyncQueueWorker is fully processed
\* exactly once or dropped without its processing having begun.
C7_ProcessedOrNeverBegun ==
    kind = AQW =>
        \A x \in Items :
            /\ Count(started, x) <= 1
            /\ proc[x] \in {"none", "running", "finished"}

\* C7 amended: process() is started at most once on each item; an item whose
\* processing began ran to completion, or was dropped when process() raised,
\* or was cut short by the cancellation of terminate(); an item whose
\* processing did not begin is dropped untouched.
C7_StartedAtMostOnce ==
    kind = AQW =>
        \A x \in Items :
            /\ Count(started, x) <= 1
            /\ (Count(started, x) = 0) <=> (proc[x] = "none")
            /\ proc[x] = "cancelled" => terminated
            /\ InQueue(input_queue, x) => proc[x] = "none"

C7_Witness ==
    /\ kind = AQW
    /\ proc[1] = "failed"
    /\ proc[2] = "cancelled"
    /\ InQueue(input_queue, 3)
    /\ loopPc[1] = "done"

\* C8: process() is started on the items in the order they were sent (items
\* are numbered in the order of the send_nonblocking() calls; for an
\* InterruptibleWorker the stale events are left out), and no process()
\* starts before the one started before it is over.
C8_Fifo ==
    /\ \A j, k \in DOMAIN started : j < k => started[j] < started[k]
    /\ \A j \in DOMAIN started : j < Len(started) => TaskDone(started[j])
    /\ \A j \in DOMAIN started, k \in DOMAIN input_queue :
          started[j] < input_queue[k]

C8_Witness ==
    /\ kind = IW
    /\ started = <<1, 3>>
    /\ proc[3] = "running"

\* C9: when process(item) raises an exception other than cancellation the
\* loop does not exit, the failing item is not put back, and every item sent
\* after it is still taken off the queue and processed (or, for an
\* InterruptibleWorker, dropped as stale), unless the loop was cancelled.
C9_LoopSurvivesException ==
    /\ [][\A i \in Loops :
             (/\ loopPc[i] \in {"process", "await"}
              /\ ~loopCancel[i]
              /\ proc'[loopItem[i]] = "failed"
              /\ loopPc'[i] # loopPc[i] \/ loopItem'[i] # loopItem[i])
             => (loopPc'[i] # "done" /\ ~InQueue(input_queue', loopItem[i]))]_vars
    /\ \A y \in 2..MaxItems :
          (y <= nSent /\ \E x \in 1..(y - 1) : proc[x] = "failed")
             ~> (\/ proc[y] # "none"
                 \/ ~InQueue(input_queue, y)
                 \/ \E i \in Loops : loopPc[i] = "done")

C9_Witness ==
    /\ proc[1] = "failed"
    /\ proc[2] = "finished"
    /\ proc[3] = "running"
    /\ ~terminated

\* C10: after any number of start() calls at most one consumption loop of
\* the instance is active.
C10_OneActiveLoop ==
    Cardinality({i \in Loops : LoopActive(i)}) <= 1

\* C11: once terminate() has taken effect on a started worker (it was called
\* and every loop task of the instance is over), no later send_nonblocking(),
\* start() or terminate() call makes process() start on any item.
C11_TerminationIsTerminal ==
    [][effective => started' = started]_vars

\* Both relay loops are over and so is the task of run_thread_forwarding.
RelaysStopped ==
    /\ LiveRelays = {}
    /\ fwdPc \in {"returned", "cancelled"}

\* No relay loop forwards an item in this step.
NothingForwarded ==
    /\ toThread' = toThread
    /\ output_queue' = output_queue

\* C12 (as stated): after terminate() on a started ThreadAsyncWorker both
\* relay loops eventually stop, neither forwards an item afterwards, and
\* the task of run_thread_forwarding never ends with CancelledError.
C12_RelaysStopSilently ==
    /\ [][terminated => NothingForwarded]_vars
    /\ (terminated ~> RelaysStopped)
    /\ [](fwdPc # "cancelled")

\* C12 (amended): after terminate() on a started ThreadAsyncWorker both
\* relay loops eventually stop and neither forwards an item afterwards;
\* once run_thread_forwarding has begun to run, it returns normally. Its
\* task ends cancelled only when terminate() came before its first step, and
\* then no relay loop was ever started.
C12_RelaysStop ==
    /\ [][terminated => NothingForwarded]_vars
    /\ (terminated ~> RelaysStopped)
    /\ [][fwdPc = "gather" => fwdPc' \in {"gather", "returned"}]_vars
    /\ [](fwdPc = "cancelled" => \A r \in Relays : relayPc[r] = "none")

\* terminate() came while both loops had forwarded items; both loops were
\* cancelled and run_thread_forwarding returned.
C12_Witness ==
    /\ terminated
    /\ fwdPc = "returned"
    /\ \A r \in Relays : relayPc[r] = "cancelled"
    /\ toThread # <<>>
    /\ output_queue # <<>>
    /\ input_queue # <<>>

\* The events publish_event was given whose type is subscribed.
SubscribedEvents ==
    {published[i] : i \in {j \in 1..Len(published) :
                              published[j].type \in subscriptions}}

\* The events handle_event was given.
HandledEvents == {handled[i] : i \in 1..Len(handled)}

\* C13: publish_event(event) appends the event to the queue if and only if
\* its type is in the subscription set, which never changes after
\* construction; an event of another type leaves the queue as it is, and
\* handle_event is never given such an event, by start() or by end().
C13_PublishFilter ==
    /\ [][subscriptions' = subscriptions]_vars
    /\ [][published' # published =>
            LET event == published'[Len(published')]
            IN queue' = IF event.type \in subscriptions
                        THEN Append(queue, event)
                        ELSE queue]_vars
    /\ [](HandledEvents \subseteq SubscribedEvents)

\* An event of an unsubscribed type and a subscribed one were published, the
\* loop ran and end() was called: only the subscribed one was handled.
C13_Witness ==
    /\ ended
    /\ startPc = "get"
    /\ \E i \in 1..Len(published) : published[i].type \notin subscriptions
    /\ handled # <<>>
    /\ queue = <<>>

\* C14: when end() returns, every subscribed event published before the call
\* has been given to handle_event, by the start() loop or by end() itself,
\* exactly once, and the queue is empty, whatever the interleaving.
C14_EndLosesNothing ==
    lastCall.op = "end" =>
        /\ queue = <<>>
        /\ SubscribedEvents = HandledEvents
        /\ Len(handled) = Cardinality(HandledEvents)

\* end() returned after it handled an event itself while the start() loop,
\* suspended on the queue, had handled another one before.
C14_Witness ==
    /\ lastCall.op = "end"
    /\ lastCall.arg >= 1
    /\ startPc = "get"
    /\ Len(handled) > lastCall.arg

\* C15: an event published after end() was called is dropped: handle_event
\* is never given it, even when its type is subscribed and the start() loop
\* is still suspended on the queue.
C15_LateEventsDropped == HandledEvents \cap late = {}

\* C16: once end() has been called, the start() loop eventually returns
\* with no further publish_event() call; before end() is called the loop
\* does not return.
C16_LoopReturnsAfterEnd ==
    /\ [][startPc' = "returned" => ended']_vars
    /\ ((ended /\ startPc \in {"created", "get"}) ~> startPc = "returned")

\* C17: on a media frame with timestamp t when the recorded timestamp is p
\* (0 at first), TwilioCall.handle_ws_message gives receive_audio exactly
\* 8*(t - (p + 20)) bytes of silence just before the chunk if t > p + 20
\* and no silence otherwise, then the chunk, and records t. For the
\* timestamps 0, 20, 60 there is no silence before the second chunk and one
\* run of 160 bytes before the third.
C17_SilenceFill ==
    /\ [][provider = Twilio /\ stamps' # stamps =>
            LET p == latest_media_timestamp
                t == stamps'[Len(stamps')]
                fill == IF t > p + 20
                        THEN <<[silence |-> TRUE, n |-> 8 * (t - (p + 20))]>>
                        ELSE <<>>
            IN /\ latest_media_timestamp' = t
               /\ audio' = audio \o fill
                                 \o <<[silence |-> FALSE, n |-> nFrames']>>]_vars
    /\ [](stamps = <<0, 20, 60>> =>
            /\ Len(audio) = 4
            /\ ~audio[1].silence
            /\ ~audio[2].silence
            /\ audio[3] = [silence |-> TRUE, n |-> 160]
            /\ ~audio[4].silence)

\* The media frames with timestamps 0, 20 and 60 were handled.
C17_Witness ==
    /\ provider = Twilio
    /\ stamps = <<0, 20, 60>>
    /\ Len(audio) = 4

\* C18: once the conversation of a started call is no longer active, no
\* frame is given to receive_audio and no call-connected event is published,
\* also for a frame that arrives while the receive loop was already waiting
\* when the conversation ended.
C18_TerminatedDropsFrames ==
    [][connected.at > 0 /\ ~conversation_active =>
         /\ audio' = audio
         /\ lifecycle' \in {lifecycle,
                            Append(lifecycle, "PhoneCallEndedEvent")}]_vars

\* C19: while the call waits for the start message every other message is
\* discarded and never processed later: nothing is given to receive_audio,
\* the conversation is not started and no call-connected event is published
\* before a start message with the stream identifier was read, and the
\* identifier is on the output device when the conversation starts.
C19_ConnectingDiscards ==
    /\ connected.at = 0 =>
         /\ audio = <<>>
         /\ ~conversation_active
         /\ lifecycle \in {<<>>, <<"PhoneCallEndedEvent">>}
    /\ connected.at > 0 =>
         /\ connected.event = "start"
         /\ stream_sid # "none"
         /\ \A i \in 1..Len(audio) :
              ~audio[i].silence => audio[i].n > connected.at

\* C20: when a read of the websocket raises after the websocket was
\* attached, the configuration is deleted and tear_down is performed, for
\* TwilioCall and for VonageCall.
C20_FailureTearsDown ==
    callPc \in Failures =>
        /\ config_deleted
        /\ \E i \in 1..Len(lifecycle) : lifecycle[i] = "PhoneCallEndedEvent"

\* The step is a read of the websocket in the receive loop of a TwilioCall
\* whose conversation is active.
ActiveRead ==
    /\ provider = Twilio
    /\ callPc = "receive"
    /\ conversation_active
    /\ nFrames' = nFrames + 1

\* delete_config and tear_down have been performed by this step.
TornDown ==
    /\ config_deleted'
    /\ CallId \notin DOMAIN configs'
    /\ lifecycle' = Append(lifecycle, "PhoneCallEndedEvent")
    /\ ~conversation_active'

\* C21: in the Active state a stop frame (or a None message) makes TwilioCall
\* leave the receive loop: no later frame is read or handled, the call
\* configuration is deleted and tear_down is called; a frame that is neither
\* media nor stop changes no state and gives receive_audio nothing.
C21_StopLeavesLoop ==
    /\ [][ActiveRead /\ received'.event \in {"stop", "None"} =>
            /\ audio' = audio
            /\ callPc' \notin {"wait_start", "receive"}
            /\ TornDown]_vars
    /\ [][callPc \notin {"init", "wait_start", "receive"} =>
            /\ nFrames' = nFrames
            /\ audio' = audio]_vars
    /\ [][ActiveRead /\ received'.event = "mark" =>
            UNCHANGED <<callPc, conversation_active, latest_media_timestamp,
                        stream_sid, audio, stamps, connected, lifecycle,
                        config_deleted, configs>>]_vars

\* The call has deleted its configuration and torn down.
CallEnded ==
    /\ config_deleted
    /\ \E i \in 1..Len(lifecycle) : lifecycle[i] = "PhoneCallEndedEvent"

\* C22: the state of a call only moves forward: whatever the websocket
\* delivers, a call that has started its conversation never waits for the
\* start message again, and a call that has deleted its configuration and
\* torn down gives receive_audio nothing more and never becomes active again.
C22_StateMovesForward ==
    /\ [][connected.at > 0 =>
            /\ callPc' # "wait_start"
            /\ connected' = connected]_vars
    /\ [][CallEnded =>
            /\ CallEnded'
            /\ audio' = audio
            /\ ~conversation_active'
            /\ callPc' = callPc]_vars

\* A call that handled audio has torn down while the websocket could still
\* deliver frames.
C22_Witness ==
    /\ CallEnded
    /\ connected.at > 0
    /\ audio # <<>>
    /\ nFrames < MaxFrames

\* C23: the configuration of a conversation id is present from the moment
\* the inbound call is admitted until its call reaches the end of
\* attach_ws_and_start and absent afterwards: once the call has left the
\* receive loop on a stop frame, a None message, a machine or fax answer or
\* an inactive conversation, get_config(id) returns None; deleting an absent
\* id changes nothing and deleting an id leaves the other ids as they are.
C23_ConfigLifetime ==
    /\ [](callPc \in {"wait_start", "receive"} =>
            GetConfig(configs, CallId) = provider)
    /\ [][(CallId \in DOMAIN configs /\ CallId \notin DOMAIN configs') =>
            (~config_deleted /\ config_deleted')]_vars
    /\ [](config_deleted => GetConfig(configs, CallId) = "None")
    /\ [](callPc \in {"returned", "TypeError"} => config_deleted)
    /\ [](\A id \in ConversationIds :
            /\ id \notin DOMAIN configs => DeleteConfig(configs, id) = configs
            /\ \A other \in ConversationIds \ {id} :
                 GetConfig(DeleteConfig(configs, id), other)
                     = GetConfig(configs, other))

\* The call has left attach_ws_and_start on a stop frame and its
\* configuration is gone, while the configuration of the other conversation
\* is still there.
C23_Witness ==
    /\ callPc = "returned"
    /\ received.event = "stop"
    /\ config_deleted
    /\ DOMAIN configs = {OtherId}

\* The chunks that carry the last-chunk flag.
LastChunks == {k \in 1..Len(chunks) : chunks[k].is_last_chunk}

\* C24: for a non-empty buffer and any chunk_size > 0 the chunks of
\* create_synthesis_result_from_wav and of FillerAudio.create_synthesis_result
\* have exactly one chunk with is_last_chunk set, the final one, also when
\* the buffer length is a multiple of chunk_size.
C24_OneLastChunk ==
    (exhausted /\ output_bytes # <<>>) => LastChunks = {Len(chunks)}

RECURSIVE Concatenation(_)
\* The frames of a sequence of chunks, put together.
Concatenation(cs) ==
    IF cs = <<>> THEN <<>>
    ELSE cs[1].chunk.frames \o Concatenation(Tail(cs))

\* The least integer that is not below length / size.
Ceiling(length, size) == (length + size - 1) \div size

\* C25: without WAV wrapping, a buffer of length L and a chunk_size c > 0
\* give ceil(L/c) chunks in order; each but the last has c bytes, the last
\* has 1 to c bytes, and the chunks put together are the buffer; an empty
\* buffer gives no chunk.
C25_ChunksPartitionBuffer ==
    ~should_encode_as_wav =>
        /\ Concatenation(chunks)
             = SubSeq(output_bytes, 1,
                      IF genPos < Len(output_bytes) THEN genPos
                      ELSE Len(output_bytes))
        /\ \A k \in 1..Len(chunks) :
             /\ ~chunks[k].chunk.wav
             /\ Len(chunks[k].chunk.frames) \in 1..chunk_size
             /\ k < Len(chunks) => Len(chunks[k].chunk.frames) = chunk_size
        /\ exhausted =>
             /\ Len(chunks) = Ceiling(Len(output_bytes), chunk_size)
             /\ Concatenation(chunks) = output_bytes

\* A buffer whose length is not a multiple of chunk_size was cut into more
\* than one chunk, the last one shorter.
C25_Witness ==
    /\ exhausted
    /\ ~should_encode_as_wav
    /\ Len(chunks) >= 2
    /\ Len(chunks[Len(chunks)].chunk.frames) < chunk_size

\* The smaller of two numbers.
Smaller(a, b) == IF a < b THEN a ELSE b

\* C26: for both cutoff functions and every message, an elapsed time that
\* is zero or negative yields the empty prefix.
C26_NonPositiveElapsedEmpty ==
    (cutoff.of # "none" /\ seconds <= 0)
        => (cutoff.error = "none" /\ cutoff.value = <<>>)

\* C27: for a non-empty message of n characters, S > 0 bytes of output,
\* sampling rate R and t >= 0 seconds, the length-proportional cutoff is the
\* first min(n, floor(t*R*n/S)) characters; with S = 10000, R = 10000,
\* n = 10 and t = 0.5 it has exactly 5 characters.
C27_LengthProportionalPrefix ==
    (/\ cutoff.of = "total_response_length"
     /\ text # <<>>
     /\ size_of_output > 0
     /\ seconds >= 0)
        => /\ cutoff.error = "none"
           /\ cutoff.value =
                SubSeq(text, 1,
                       Smaller(Len(text),
                               (seconds * sampling_rate * Len(text))
                                   \div (4 * size_of_output)))
           /\ (/\ size_of_output = 10000
               /\ sampling_rate = 10000
               /\ Len(text) = 10
               /\ seconds = 2) => Len(cutoff.value) = 5

\* C28: for a message of k tokens, w words per minute and t >= 0 seconds,
\* the rate-based cutoff is the detokenization of the first
\* min(k, floor(w*t/60)) tokens, in their order; for "the quick brown fox"
\* at t = 1 and w = 60 it is exactly "the".
C28_RateBasedPrefix ==
    (cutoff.of = "voice_speed" /\ seconds >= 0)
        => /\ cutoff.error = "none"
           /\ cutoff.value =
                detokenize(
                    SubSeq(word_tokenize(text), 1,
                           Smaller(Len(word_tokenize(text)),
                                   (words_per_minute * seconds) \div 240)))
           /\ (text = Fox /\ seconds = 4 /\ words_per_minute = 60)
                  => cutoff.value = <<"t", "h", "e">>

\* The elapsed time has reached the total estimated duration: output bytes
\* over sampling rate, or token count over words per second.
ElapsedWholeDuration ==
    \/ /\ cutoff.of = "total_response_length"
       /\ seconds * sampling_rate >= 4 * size_of_output
    \/ /\ cutoff.of = "voice_speed"
       /\ seconds * words_per_minute >= 240 * Len(word_tokenize(text))

\* C29: for both cutoff functions, an elapsed time greater than or equal to
\* the total estimated duration yields the full message text, never a
\* strict prefix and never an error.
C29_WholeDurationFullText ==
    ElapsedWholeDuration => (cutoff.error = "none" /\ cutoff.value = text)

\* C30: barge-in does not stop the response stage.  After
\* cancel_current_task() has returned true on a running InterruptibleWorker
\* the loop keeps running, whether process() lets the CancelledError
\* through (its task ends cancelled) or handles it, and an event sent after
\* the cancelled one is eventually taken off the queue and processed, or
\* dropped as stale, unless the worker is terminated.
C30_BargeInKeepsLoop ==
    /\ [][\A i \in Loops :
             (/\ kind = IW
              /\ loopPc[i] = "await"
              /\ proc[loopItem[i]] = "cancelled"
              /\ ~loopCancel[i]
              /\ ~terminated)
             => loopPc'[i] # "done"]_vars
    /\ \A y \in 2..MaxItems :
          (/\ kind = IW
           /\ y <= nSent
           /\ \E x \in 1..(y - 1) : proc[x] = "cancelled")
             ~> (\/ proc[y] # "none"
                 \/ ~InQueue(input_queue, y)
                 \/ terminated)

\* C31: cancellation of an event is one-way as consumers see it.  Once the
\* signal of an event is set and is_interrupted() returns true for it,
\* is_interrupted() returns true after every later step of the worker
\* (the end of the event's task included) and every later interrupt().
C31_CancellationOneWay ==
    [][\A e \in Items :
          (kind = IW /\ e <= nSent /\ IsInterrupted(is_interruptible, e))
             => IsInterrupted(is_interruptible, e)']_vars

\* p is a prefix of q
IsPrefix(p, q) == Len(p) <= Len(q) /\ SubSeq(q, 1, Len(p)) = p

\* The items sent with send_nonblocking(), in order.
Sent == [k \in 1..nSent |-> k]

\* The items the thread has put on the output janus queue, in order: it puts
\* one for each item it took, in the order it took them.
ThreadPut == SubSeq(toThread, 1, Len(toThread) - Len(input_janus_queue))

\* C32: the relay loops of a running ThreadAsyncWorker forward every item
\* once and in order.  The items placed on the input janus queue are a prefix
\* of the items sent, the items placed on output_queue are a prefix of the
\* items the thread put on the output janus queue, and without terminate()
\* every item is eventually forwarded, by either loop whatever the other
\* loop's queue holds.
C32_RelaysForwardInOrder ==
    /\ [](kind = TAW => IsPrefix(toThread, Sent))
    /\ [](kind = TAW => IsPrefix(output_queue, ThreadPut))
    /\ \A y \in Items :
          (kind = TAW /\ nStarts >= 1 /\ y <= nSent)
             ~> (InQueue(toThread, y) \/ terminated)
    /\ \A y \in Items :
          (kind = TAW /\ InQueue(ThreadPut, y))
             ~> (InQueue(output_queue, y) \/ terminated)

\* Every item went to the thread and came back, the last result while the
\* inbound loop waited on its empty queue.
C32_Witness ==
    /\ kind = TAW
    /\ ~terminated
    /\ toThread = Sent
    /\ output_queue = Sent
    /\ nSent = MaxItems
    /\ \A r \in Relays : relayPc[r] = "get"

\* C33: after GoogleTranscriber.terminate() on a started transcriber the
\* stage shuts down without further input.  The audio generator of the
\* recognizer thread eventually ends even if no chunk is enqueued any more,
\* the relay loops stop, and no transcription is put on the output queue
\* for a response received after terminate().
C33_TerminateShutsDown ==
    /\ (_ended ~> streamPc = "returned")
    /\ (_ended ~> RelaysStopped)
    /\ [](\A k \in DOMAIN responses :
             responses[k].after_terminate => ~responses[k].put)

\* The chunks of a sequence of byte strings, put together.
RECURSIVE Joined(_)
Joined(strings) ==
    IF strings = <<>> THEN <<>> ELSE Head(strings) \o Joined(Tail(strings))

\* The chunks generator() took ahead of the None sentinel.
TakenAudio == SelectSeq(taken, LAMBDA chunk : chunk # None)

\* C34: generator() loses no audio.  Before terminate(), whenever it is not
\* in the middle of reading a batch, the byte strings it has yielded put
\* together are the chunks it took from the input janus queue ahead of the
\* None sentinel, in order, whatever the batching and wherever the sentinel
\* falls within a batch.
C34_GeneratorLosesNoAudio ==
    (~_ended /\ streamPc \in {"get", "yield", "returned"})
        => Joined(yielded) = TakenAudio


\* C35: two workers constructed without an output_queue argument have
\* independent output queues: what one of them puts on its output_queue is
\* never read through the output_queue of the other.
C35_DefaultQueuesIndependent ==
    \A k \in DOMAIN observed :
        LET reader == observed[k].through
            writer == observed[k].item
        IN  (/\ ~workers[reader].explicit
             /\ ~workers[writer].explicit) => reader = writer

\* C36: every event is passed to handle_event at most once and the events
\* are handled in the order they were published, by the loop of start() and
\* the drain of end() taken together: an event handled later was published
\* later.
C36_HandledOnceInOrder ==
    \A i, j \in DOMAIN handled :
        i < j => handled[i].id < handled[j].id

\* end() drained an event after the loop of start() had handled another.
C36_Witness ==
    /\ lastCall.op = "end"
    /\ lastCall.arg >= 1
    /\ Len(handled) > lastCall.arg
    /\ startPc = "get"

\* The size of a payload of 20 ms of audio at 8 bytes per millisecond.
PayloadBytes == BytesPerMs * Tolerance

\* The number of bytes given to receive_audio, silence and chunks together.
RECURSIVE TotalBytes(_)
TotalBytes(given) ==
    IF given = <<>>
    THEN 0
    ELSE (IF Head(given).silence THEN Head(given).n ELSE PayloadBytes)
            + TotalBytes(Tail(given))

\* The first timestamp is 0 and each frame comes at least 20 ms after the
\* frame before it.
RegularStream ==
    /\ stamps # <<>>
    /\ stamps[1] = 0
    /\ \A k \in 2..Len(stamps) : stamps[k] >= stamps[k - 1] + 20

\* C37: for a Twilio media stream of 160-byte payloads whose first timestamp
\* is 0 and whose timestamps grow by at least 20 ms per frame, the bytes
\* given to receive_audio after the frame with timestamp t total 8*(t + 20)
\* and latest_media_timestamp is t; a stop or other non-media message
\* leaves latest_media_timestamp unchanged.
C37_StreamTotalsBytes ==
    /\ []((provider = Twilio /\ RegularStream) =>
            LET t == stamps[Len(stamps)]
            IN /\ TotalBytes(audio) = 8 * (t + 20)
               /\ latest_media_timestamp = t)
    /\ [][(provider = Twilio /\ nFrames' # nFrames
                             /\ received'.event # "media")
            => (latest_media_timestamp' = latest_media_timestamp)]_vars

\* The frames with timestamps 0 and 60 were handled, with 320 bytes of
\* silence between them, and then the stop message.
C37_Witness ==
    /\ provider = Twilio
    /\ stamps = <<0, 60>>
    /\ TotalBytes(audio) = 640
    /\ received.event = "stop"

\* The places of an event in the sequence of the events published.
Published(event) == {k \in DOMAIN lifecycle : lifecycle[k] = event}

\* C38: in one call session PhoneCallConnectedEvent is published exactly
\* once if the session becomes active, after the start message and the start
\* of the conversation and before any audio is given to receive_audio; a
\* Twilio call answered by a machine or a fax never publishes it and
\* receives no audio, but deletes its configuration and tears down; in a
\* Vonage session the call-ended event is published after the connected
\* event and after the configuration was deleted.
C38_ConnectedEventOnce ==
    /\ [](Cardinality(Published("PhoneCallConnectedEvent"))
             = IF connected.at > 0 THEN 1 ELSE 0)
    /\ [](audio # <<>> => Published("PhoneCallConnectedEvent") # {})
    /\ [][(Published("PhoneCallConnectedEvent")' # {}
              /\ Published("PhoneCallConnectedEvent") = {})
            => (/\ callPc = "wait_start"
                /\ audio' = <<>>
                /\ conversation_active'
                /\ provider = Twilio => received'.event = "start")]_vars
    /\ []((callPc \notin {"init", "wait_start", "receive"}
              /\ connected.at = 0 /\ nFrames = 0)
            => (/\ audio = <<>>
                /\ config_deleted
                /\ Published("PhoneCallEndedEvent") # {}
                /\ ~conversation_active))
    /\ [](provider = Vonage =>
            \A k \in Published("PhoneCallEndedEvent") :
                /\ config_deleted
                /\ \E c \in Published("PhoneCallConnectedEvent") : c < k)

\* C39: a chunk given to send_nonblocking() after mark_closed() is never
\* put on the queue and never sent; the messages are given to the websocket
\* in the order their chunks were submitted, each at most once; and after
\* mark_closed() the process loop begins at most one more send.
C39_ClosedDeviceSendsNoMore ==
    /\ \A k \in DOMAIN submitted :
          ~submitted[k].active =>
              /\ ~InQueue(device_queue, AudioMessage(submitted[k].chunk))
              /\ ~InQueue(ws, AudioMessage(submitted[k].chunk))
    /\ \A i, j \in DOMAIN ws : i < j => ws[i].data < ws[j].data
    /\ \A i \in DOMAIN ws :
          \E k \in DOMAIN submitted : ws[i] = AudioMessage(submitted[k].chunk)
    /\ ~device_active => Len(ws) <= sent_at_close + 1

\* The device was closed while process() was waiting with two messages
\* queued: one more send began, a later chunk was refused, and the loop is
\* over with a message left on the queue.
C39_Witness ==
    /\ ~device_active
    /\ Len(ws) = sent_at_close + 1
    /\ process_task = "done"
    /\ device_queue # <<>>
    /\ \E k \in DOMAIN submitted : ~submitted[k].active

\* C40: the cutoff estimator of a filler's SynthesisResult returns the full
\* message text of the filler for every elapsed time, zero and negative
\* included: a filler interrupted at any point counts as entirely spoken.
C40_FillerFullText ==
    cutoff.of = "message_text"
        => (cutoff.error = "none" /\ cutoff.value = text)

\* A filler with a message was cut off at zero seconds, after its first
\* chunk and before its last.
C40_Witness ==
    /\ cutoff.of = "message_text"
    /\ cutoff.value = Hello
    /\ seconds = 0
    /\ chunks # <<>>
    /\ ~exhausted
    /\ LastChunks = {}

====
